---- MODULE Spec2Model ----
(***************************************************************************)
(* Quickevent: a chat front end that asks a language model for a calendar  *)
(* event in JSON, recovers the JSON from the reply, asks the user to       *)
(* confirm it, validates it and submits it to Google Calendar.             *)
(*                                                                         *)
(* The module models                                                       *)
(*   - calendar_utils.parse_datetime / validate_event_data /               *)
(*     create_calendar_event  (SpecValidate, and the Confirm action),      *)
(*   - llm_utils.query_groq, step by step (Spec),                          *)
(*   - llm_utils.extract_json_from_text and json.loads on reply texts      *)
(*     (SpecExtract, and the HandleResponse action),                       *)
(*   - calendar_utils.list_upcoming_events (the ListEvents action),        *)
(*   - app.main, one action per script run (Spec).                         *)
(***************************************************************************)
EXTENDS Integers, Sequences, FiniteSets, TLC

VARIABLES
    \* ---- validate_event_data applied to one candidate (SpecValidate)
    vpc,          \* "input" before the call, "done" after it, then
                  \* "revalidated" or "submitted"
    vin,          \* the CandidateEvent passed in
    vnow,         \* what datetime.now() returns during the call
    vout,         \* [event, warnings, raised]: what the call produced
    vheld,        \* the caller's event_data object as it is after the call
    vre,          \* [now, out]: validate_event_data applied to vout.event
    vsub,         \* [outcomes, made]: the inserts that follow the validation
    vfmt,         \* format_event_time_indian(vin), once it has been called
    \* ---- extract_json_from_text applied to one reply text (SpecExtract)
    xpc,          \* "input" before the call, "done" after it
    xtext,        \* the reply text, a sequence of lexical tokens
    xout,         \* [strict, rec]: json.loads(text) and the recovery's trace
    \* ---- the Streamlit session and the script run in progress (Spec)
    pc,           \* "idle" | "groq" | "reply": position of the run of main()
    messages,     \* st.session_state['messages']
    pending,      \* st.session_state['pending_event'], or NoPending
    groq,         \* locals of the query_groq call in progress / last made
    submissions,  \* number of create_calendar_event calls made so far
    last,         \* what the last finished script run did (observer)
    recording,    \* st.session_state.recording
    transcribed_text,  \* st.session_state.transcribed_text
    transcripts,  \* number of transcripts the session has been given so far
    \* ---- the module globals of speech_utils and its threads (SpecRecord)
    is_recording,        \* the flag the recording loops poll
    recording_thread,    \* the Thread object last assigned, or None
    recorded_file_path,  \* the path last written by a recording, or None
    threads,      \* position of every record_audio thread started so far
    stops         \* the stop_recording call of each session

valVars == <<vpc, vin, vnow, vout, vheld, vre, vsub, vfmt>>
extVars == <<xpc, xtext, xout>>
micVars == <<recording, transcribed_text, transcripts>>
appVars == <<pc, messages, pending, groq, submissions, last,
             recording, transcribed_text, transcripts>>
recVars == <<is_recording, recording_thread, recorded_file_path, threads, stops>>
vars == <<vpc, vin, vnow, vout, vheld, vre, vsub, vfmt, xpc, xtext, xout,
          pc, messages, pending, groq, submissions, last,
          recording, transcribed_text, transcripts,
          is_recording, recording_thread, recorded_file_path, threads, stops>>

(***************************************************************************)
(* JSON values as Python sees them after json.loads.                       *)
(*   dict   : a function from the keys present to their values             *)
(*   others : a record tagged by t ("str", "null", "num", "list", "bool")  *)
(* A string carries its lexical shape k and the fields that shape has;     *)
(* strptime and the regular expressions read those.                        *)
(***************************************************************************)
Null == [t |-> "null"]

\* marks a key that is not in a dict, a variable that holds nothing
Absent == [t |-> "absent"]

EmptyStr == [t |-> "str", k |-> "empty"]

Text(s) == [t |-> "str", k |-> "text", s |-> s]

Num(n) == [t |-> "num", n |-> n]

List(items) == [t |-> "list", items |-> items]

Bool(b) == [t |-> "bool", b |-> b]

EmptyDict == <<>>

IsDict(v) == "t" \notin DOMAIN v

IsStr(v) == ~IsDict(v) /\ v.t = "str"

IsList(v) == ~IsDict(v) /\ v.t = "list"

\* Python truthiness: bool(v)
Truthy(v) ==
    IF IsDict(v) THEN DOMAIN v # {}
    ELSE CASE v.t = "str" -> v.k # "empty"
           [] v.t = "null" -> FALSE
           [] v.t = "num" -> v.n # 0
           [] v.t = "list" -> Len(v.items) > 0
           [] v.t = "bool" -> v.b

\* d[k] = v on a dict
Put(d, k, v) == (k :> v) @@ d

\* d.get(k, default)
Get(d, k, default) == IF k \in DOMAIN d THEN d[k] ELSE default

(***************************************************************************)
(* Date strings.  Shapes (field k) and their fields:                       *)
(*   isoz     y-mo-dTh:mi:s<off>        iso      y-mo-dTh:mi:s             *)
(*   ymd_hms  y-mo-d h:mi:s             ymd_hm   y-mo-d h:mi               *)
(*   ymd      y-mo-d                                                       *)
(*   sl_hms   a/b/y h:mi:s              sl_hm    a/b/y h:mi                *)
(*   sl       a/b/y                                                        *)
(*   nl       <word> d, y               nl_hm    <word> d, y at h:mi AP    *)
(*   nl_h     <word> d, y at h AP                                          *)
(* word is the month number the word names, 0 when it names no month.      *)
(***************************************************************************)
DEFAULT_TIMEZONE == "Asia/Kolkata"

DEFAULT_TIMEZONE_OFFSET == "+05:30"

IsoZ(y, mo, d, h, mi, s, off) ==
    [t |-> "str", k |-> "isoz", y |-> y, mo |-> mo, d |-> d,
     h |-> h, mi |-> mi, s |-> s, off |-> off]

Iso(y, mo, d, h, mi, s) ==
    [t |-> "str", k |-> "iso", y |-> y, mo |-> mo, d |-> d,
     h |-> h, mi |-> mi, s |-> s]

YmdHms(y, mo, d, h, mi, s) ==
    [t |-> "str", k |-> "ymd_hms", y |-> y, mo |-> mo, d |-> d,
     h |-> h, mi |-> mi, s |-> s]

YmdHm(y, mo, d, h, mi) ==
    [t |-> "str", k |-> "ymd_hm", y |-> y, mo |-> mo, d |-> d,
     h |-> h, mi |-> mi]

Ymd(y, mo, d) == [t |-> "str", k |-> "ymd", y |-> y, mo |-> mo, d |-> d]

SlHms(a, b, y, h, mi, s) ==
    [t |-> "str", k |-> "sl_hms", a |-> a, b |-> b, y |-> y,
     h |-> h, mi |-> mi, s |-> s]

SlHm(a, b, y, h, mi) ==
    [t |-> "str", k |-> "sl_hm", a |-> a, b |-> b, y |-> y, h |-> h, mi |-> mi]

Sl(a, b, y) == [t |-> "str", k |-> "sl", a |-> a, b |-> b, y |-> y]

Nl(word, d, y) == [t |-> "str", k |-> "nl", word |-> word, d |-> d, y |-> y]

NlHm(word, d, y, h, mi, ap) ==
    [t |-> "str", k |-> "nl_hm", word |-> word, d |-> d, y |-> y,
     h |-> h, mi |-> mi, ap |-> ap]

NlH(word, d, y, h, ap) ==
    [t |-> "str", k |-> "nl_h", word |-> word, d |-> d, y |-> y,
     h |-> h, ap |-> ap]

\* a datetime.datetime object; tz is "naive" or the parsed UTC offset
DateTime(y, mo, d, h, mi, s, tz) ==
    [y |-> y, mo |-> mo, d |-> d, h |-> h, mi |-> mi, s |-> s, tz |-> tz]

IsLeap(y) == (y % 4 = 0 /\ y % 100 # 0) \/ y % 400 = 0

DaysInMonth(y, mo) ==
    IF mo = 2 THEN (IF IsLeap(y) THEN 29 ELSE 28)
    ELSE IF mo \in {4, 6, 9, 11} THEN 30 ELSE 31

\* the ranges datetime's constructor accepts
ValidFields(y, mo, d, h, mi, s) ==
    /\ y \in 1..9999
    /\ mo \in 1..12
    /\ d >= 1 /\ d <= DaysInMonth(y, mo)
    /\ h \in 0..23
    /\ mi \in 0..59
    /\ s \in 0..59

ValueError == [r |-> "ValueError"]

TypeError == [r |-> "TypeError"]

Parsed(dt) == [r |-> "ok", dt |-> dt]

Build(y, mo, d, h, mi, s, tz) ==
    IF ValidFields(y, mo, d, h, mi, s)
    THEN Parsed(DateTime(y, mo, d, h, mi, s, tz))
    ELSE ValueError

\* a formats list with the day/month/year formats before month/day/year
FormatsDayFirst ==
    << "%Y-%m-%dT%H:%M:%S%z", "%Y-%m-%dT%H:%M:%S", "%Y-%m-%d %H:%M:%S",
       "%Y-%m-%d %H:%M", "%Y-%m-%d",
       "%d/%m/%Y %H:%M:%S", "%d/%m/%Y %H:%M", "%d/%m/%Y",
       "%m/%d/%Y %H:%M:%S", "%m/%d/%Y %H:%M", "%m/%d/%Y" >>

\* the formats list of parse_datetime, in its order
Formats ==
    << "%Y-%m-%dT%H:%M:%S%z", "%Y-%m-%dT%H:%M:%S", "%Y-%m-%d %H:%M:%S",
       "%Y-%m-%d %H:%M", "%Y-%m-%d",
       "%m/%d/%Y %H:%M:%S", "%m/%d/%Y %H:%M", "%m/%d/%Y",
       "%d/%m/%Y %H:%M:%S", "%d/%m/%Y %H:%M", "%d/%m/%Y" >>

\* a strptime whose %z takes no offset written with a colon
StrptimeNoColonOffset(v, fmt) ==
    IF ~IsStr(v) THEN TypeError
    ELSE CASE fmt = "%Y-%m-%dT%H:%M:%S" /\ v.k = "iso" ->
                Build(v.y, v.mo, v.d, v.h, v.mi, v.s, "naive")
           [] fmt = "%Y-%m-%d" /\ v.k = "ymd" ->
                Build(v.y, v.mo, v.d, 0, 0, 0, "naive")
           [] OTHER -> ValueError

\* dt.datetime.strptime(v, fmt)
Strptime(v, fmt) ==
    IF ~IsStr(v) THEN TypeError
    ELSE CASE fmt = "%Y-%m-%dT%H:%M:%S%z" /\ v.k = "isoz" ->
                Build(v.y, v.mo, v.d, v.h, v.mi, v.s, v.off)
           [] fmt = "%Y-%m-%dT%H:%M:%S" /\ v.k = "iso" ->
                Build(v.y, v.mo, v.d, v.h, v.mi, v.s, "naive")
           [] fmt = "%Y-%m-%d %H:%M:%S" /\ v.k = "ymd_hms" ->
                Build(v.y, v.mo, v.d, v.h, v.mi, v.s, "naive")
           [] fmt = "%Y-%m-%d %H:%M" /\ v.k = "ymd_hm" ->
                Build(v.y, v.mo, v.d, v.h, v.mi, 0, "naive")
           [] fmt = "%Y-%m-%d" /\ v.k = "ymd" ->
                Build(v.y, v.mo, v.d, 0, 0, 0, "naive")
           [] fmt = "%m/%d/%Y %H:%M:%S" /\ v.k = "sl_hms" ->
                Build(v.y, v.a, v.b, v.h, v.mi, v.s, "naive")
           [] fmt = "%m/%d/%Y %H:%M" /\ v.k = "sl_hm" ->
                Build(v.y, v.a, v.b, v.h, v.mi, 0, "naive")
           [] fmt = "%m/%d/%Y" /\ v.k = "sl" ->
                Build(v.y, v.a, v.b, 0, 0, 0, "naive")
           [] fmt = "%d/%m/%Y %H:%M:%S" /\ v.k = "sl_hms" ->
                Build(v.y, v.b, v.a, v.h, v.mi, v.s, "naive")
           [] fmt = "%d/%m/%Y %H:%M" /\ v.k = "sl_hm" ->
                Build(v.y, v.b, v.a, v.h, v.mi, 0, "naive")
           [] fmt = "%d/%m/%Y" /\ v.k = "sl" ->
                Build(v.y, v.b, v.a, 0, 0, 0, "naive")
           [] OTHER -> ValueError

\* %I with %p: the 12-hour clock read as an hour of the day
Hour24(h, ap) == IF ap = "AM" THEN (IF h = 12 THEN 0 ELSE h)
                 ELSE (IF h = 12 THEN 12 ELSE h + 12)

\* a fallback whose default time of day is midnight
StrptimeNaturalMidnight(v) ==
    CASE v.k = "nl" ->
            IF v.word \in 1..12
            THEN Build(v.y, v.word, v.d, 0, 0, 0, "naive")
            ELSE ValueError
      [] v.k = "nl_hm" ->
            IF v.word \in 1..12 /\ v.h \in 1..12
            THEN Build(v.y, v.word, v.d, Hour24(v.h, v.ap), v.mi, 0, "naive")
            ELSE ValueError
      [] OTHER -> ValueError

\* strptime(f"{date_part} {time_part}", '%B %d, %Y %I:%M %p') on what the
\* pattern of the natural-language fallback captured
StrptimeNatural(v) ==
    CASE v.k = "nl" ->
            \* no time captured: time_part is "12:00 PM"
            IF v.word \in 1..12
            THEN Build(v.y, v.word, v.d, Hour24(12, "PM"), 0, 0, "naive")
            ELSE ValueError
      [] v.k = "nl_hm" ->
            IF v.word \in 1..12 /\ v.h \in 1..12
            THEN Build(v.y, v.word, v.d, Hour24(v.h, v.ap), v.mi, 0, "naive")
            ELSE ValueError
      [] v.k = "nl_h" ->
            \* "3 PM" has no minutes: it does not match %I:%M
            ValueError
      [] OTHER -> ValueError

\* whether re.search finds '\w+ \d{1,2}, \d{4}' in the string
NaturalPatternMatches(v) == v.k \in {"nl", "nl_hm", "nl_h"}

RECURSIVE TryFormats(_, _)
\* the for loop over formats from index i: the first format that parses
\* wins, a ValueError moves on, any other exception leaves the function
TryFormats(v, i) ==
    IF i > Len(Formats) THEN [r |-> "exhausted"]
    ELSE LET p == Strptime(v, Formats[i])
         IN  IF p.r = "ValueError" THEN TryFormats(v, i + 1) ELSE p

\* parse_datetime(datetime_str): [r |-> "ok", dt |-> ..] for a datetime,
\* [r |-> "none"] for None, [r |-> "TypeError"] for an escaping exception
parse_datetime(v) ==
    IF ~Truthy(v) THEN [r |-> "none"]
    ELSE LET p == TryFormats(v, 1)
         IN  IF p.r # "exhausted" THEN p
             ELSE IF NaturalPatternMatches(v)
                  THEN LET q == StrptimeNatural(v)
                       IN  IF q.r = "ok" THEN q ELSE [r |-> "none"]
                  ELSE [r |-> "none"]

\* parsed_dt.replace(year=y)
ReplaceYear(dt, y) ==
    IF dt.d <= DaysInMonth(y, dt.mo) THEN Parsed([dt EXCEPT !.y = y])
    ELSE ValueError

\* the day after dt's day
NextDay(dt) ==
    IF dt.d < DaysInMonth(dt.y, dt.mo) THEN [dt EXCEPT !.d = @ + 1]
    ELSE IF dt.mo < 12 THEN [dt EXCEPT !.d = 1, !.mo = @ + 1]
    ELSE [dt EXCEPT !.d = 1, !.mo = 1, !.y = @ + 1]

\* dt + timedelta(hours=n), for n below 24
AddHours(dt, n) ==
    IF dt.h + n < 24 THEN [dt EXCEPT !.h = @ + n]
    ELSE NextDay([dt EXCEPT !.h = @ + n - 24])

\* dt.strftime('%Y-%m-%dT%H:%M:%S') + DEFAULT_TIMEZONE_OFFSET
Canonical(dt) ==
    IsoZ(dt.y, dt.mo, dt.d, dt.h, dt.mi, dt.s, DEFAULT_TIMEZONE_OFFSET)

(***************************************************************************)
(* calendar_utils.validate_event_data                                      *)
(***************************************************************************)
\* a default that is one hour ahead for both fields
DefaultTimeOneHour(now, time_field) == Canonical(AddHours(now, 1))

\* (now + timedelta(hours=offset)).strftime(..) + DEFAULT_TIMEZONE_OFFSET,
\* offset 1 for start and 2 for end
DefaultTime(now, time_field) ==
    Canonical(AddHours(now, IF time_field = "start" THEN 1 ELSE 2))

CouldNotParse(time_field, datetime_str) ==
    [kind |-> "Could not parse", field |-> time_field, value |-> datetime_str]

ErrorParsing(time_field, exc) ==
    [kind |-> "Error parsing", field |-> time_field, exc |-> exc]

\* the else branch of the try block, for the datetime parse_datetime gave:
\* the year is moved to the current one when it is earlier, and the
\* datetime is written in ISO form with the default offset; fixed is what
\* replace(year=..) gave, or the datetime as parsed
WriteParsed(fixed) ==
    IF fixed.r = "ok"
    THEN [r |-> "ok", dateTime |-> Canonical(fixed.dt), warnings |-> <<>>]
    ELSE [r |-> fixed.r]

\* the try block after parse_datetime returned parsed_dt
AfterParse(parsed_dt, datetime_str, time_field, now) ==
    CASE parsed_dt.r = "none" ->
            [r |-> "ok", dateTime |-> DefaultTime(now, time_field),
             warnings |-> << CouldNotParse(time_field, datetime_str) >>]
      [] parsed_dt.r = "ok" ->
            WriteParsed(IF parsed_dt.dt.y < now.y
                        THEN ReplaceYear(parsed_dt.dt, now.y)
                        ELSE parsed_dt)
      [] OTHER -> [r |-> parsed_dt.r]

\* the try block for a truthy datetime_str: the dateTime it writes and the
\* warnings it adds, or the exception that leaves it
TryBlock(datetime_str, time_field, now) ==
    AfterParse(parse_datetime(datetime_str), datetime_str, time_field, now)

\* a handler that lets everything but ValueError through
ExceptValueErrorOnly(res, time_field, now) ==
    IF res.r = "ValueError"
    THEN [r |-> "ok", dateTime |-> DefaultTime(now, time_field),
          warnings |-> << ErrorParsing(time_field, res.r) >>]
    ELSE res

\* except Exception as e: a warning and the default time
ExceptException(res, time_field, now) ==
    IF res.r = "ok" THEN res
    ELSE [r |-> "ok", dateTime |-> DefaultTime(now, time_field),
          warnings |-> << ErrorParsing(time_field, res.r) >>]

\* the assignment to validated_event[time_field]['dateTime'] with what the
\* try statement gave, or the exception that left it going on
StoreResult(st, time_field, value, res) ==
    IF res.r = "ok"
    THEN [event |-> Put(st.event, time_field, Put(value, "dateTime", res.dateTime)),
          warnings |-> st.warnings \o res.warnings,
          raised |-> "none"]
    ELSE [st EXCEPT !.event = Put(st.event, time_field, value), !.raised = res.r]

\* the elif branch for a mapping, once timeZone is there
ValidateMapping(st, time_field, value, now) ==
    IF "dateTime" \in DOMAIN value /\ Truthy(value["dateTime"])
    THEN StoreResult(st, time_field, value,
                     ExceptException(TryBlock(value["dateTime"], time_field, now),
                                     time_field, now))
    ELSE [st EXCEPT !.event = Put(st.event, time_field, value)]

\* one pass of the loop over 'start' and 'end'; st is the call's state
\* [event, warnings, raised]
ValidateTimeField(st, time_field, now) ==
    IF st.raised # "none" THEN st
    ELSE IF time_field \notin DOMAIN st.event
    THEN [st EXCEPT !.event =
             Put(st.event, time_field,
                 [dateTime |-> DefaultTime(now, time_field),
                  timeZone |-> Text(DEFAULT_TIMEZONE)])]
    ELSE IF IsDict(st.event[time_field])
    THEN ValidateMapping(st, time_field,
             IF "timeZone" \notin DOMAIN st.event[time_field]
             THEN Put(st.event[time_field], "timeZone", Text(DEFAULT_TIMEZONE))
             ELSE st.event[time_field],
             now)
    ELSE st

\* a promotion that wraps every entry
PromoteAttendeeAny(attendee) == [email |-> attendee]

\* the attendee at position i after the loop: a bare string becomes
\* {'email': string}
PromoteAttendee(attendee) ==
    IF IsStr(attendee) THEN [email |-> attendee] ELSE attendee

\* the attendees loop
PromoteAttendees(st) ==
    IF st.raised = "none" /\ "attendees" \in DOMAIN st.event
                          /\ IsList(st.event["attendees"])
    THEN [st EXCEPT !.event =
             Put(st.event, "attendees",
                 List([i \in 1..Len(st.event["attendees"].items) |->
                          PromoteAttendee(st.event["attendees"].items[i])]))]
    ELSE st

\* a copy that keeps the fields the validator knows and drops the others
WithSummaryKnownFields(event_data) ==
    [k \in DOMAIN event_data \cap {"summary", "start", "end", "attendees"} |->
        IF k = "summary" /\ ~Truthy(event_data[k]) THEN Text("Untitled Event")
        ELSE event_data[k]]

\* the summary default
WithSummary(event_data) ==
    IF "summary" \notin DOMAIN event_data \/ ~Truthy(event_data["summary"])
    THEN Put(event_data, "summary", Text("Untitled Event"))
    ELSE event_data

\* validate_event_data(event_data) when datetime.now() is now:
\* [event, warnings] is the pair returned; raised names an exception that
\* left the function instead ("none" when it returned)
validate_event_data(event_data, now) ==
    PromoteAttendees(
        ValidateTimeField(
            ValidateTimeField(
                [event |-> WithSummary(event_data), warnings |-> <<>>,
                 raised |-> "none"],
                "start", now),
            "end", now))

\* event_data as the caller sees it after the call: event_data.copy() is a
\* shallow copy, so the top-level keys are the caller's own, while a start
\* or end mapping and an attendees list are the very objects the function
\* writes into
InputAfter(event_data, out) ==
    [k \in DOMAIN event_data |->
        IF out.raised = "none"
           /\ \/ k \in {"start", "end"} /\ IsDict(event_data[k])
              \/ k = "attendees" /\ IsList(event_data[k])
        THEN out.event[k]
        ELSE event_data[k]]

(***************************************************************************)
(* calendar_utils.format_event_time_indian                                 *)
(***************************************************************************)
\* the try block once parse_datetime(date_str) gave parsed_dt: a datetime is
\* written in canonical form, None leaves the mapping as it is, an exception
\* leaves the bare except to write the default
FormatParsed(field, parsed_dt, time_field, now) ==
    CASE parsed_dt.r = "ok" -> Put(field, "dateTime", Canonical(parsed_dt.dt))
      [] parsed_dt.r = "none" -> field
      [] OTHER -> Put(field, "dateTime", DefaultTime(now, time_field))

\* the branch for a start/end that is a mapping, its timeZone already set
FormatMapping(field, time_field, now) ==
    IF "dateTime" \in DOMAIN field
    THEN FormatParsed(field, parse_datetime(field["dateTime"]), time_field, now)
    ELSE field

FormatTimeField(value, time_field, now) ==
    IF IsDict(value)
    THEN FormatMapping(Put(value, "timeZone", Text(DEFAULT_TIMEZONE)),
                       time_field, now)
    ELSE [dateTime |-> DefaultTime(now, time_field),
          timeZone |-> Text(DEFAULT_TIMEZONE)]

\* format_event_time_indian(event_data) called when the clock reads now
format_event_time_indian(event_data, now) ==
    [k \in DOMAIN event_data |->
        IF k \in {"start", "end"}
        THEN FormatTimeField(event_data[k], k, now)
        ELSE event_data[k]]

(***************************************************************************)
(* Reply texts.  A text is a sequence of lexical tokens; white space       *)
(* between tokens is not represented: json.loads and the patterns' white   *)
(* space classes skip it.                                                  *)
(*   "w"        a prose word: no brace, quote, colon or backtick           *)
(*   "{" "}" "," the JSON punctuation                                      *)
(*   "fence"    three backquotes;  "json" the tag word right after them    *)
(*   "[1]" "null" "7"   a JSON array, null and number literal              *)
(*   "sum" "loc" "desc" "err" "dtA" "dtB" "dt0" "dtL"                      *)
(*              a member  "key": "string"  (see MemberKey, MemberValue)    *)
(*   "start:" "end:"    a key and its colon; the value follows             *)
(***************************************************************************)
DateA == IsoZ(2026, 3, 15, 9, 0, 0, "+05:30")

DateB == IsoZ(2026, 3, 15, 10, 0, 0, "+05:30")

\* a leap day of a past year
DateL == IsoZ(2024, 2, 29, 10, 0, 0, "+05:30")

MemberTokens == {"sum", "loc", "desc", "err", "dtA", "dtB", "dt0", "dtL"}

KeyTokens == {"start:", "end:"}

MemberKey(tok) ==
    CASE tok = "sum" -> "summary"
      [] tok = "loc" -> "location"
      [] tok = "desc" -> "description"
      [] tok = "err" -> "error"
      [] tok \in {"dtA", "dtB", "dt0", "dtL"} -> "dateTime"
      [] tok = "start:" -> "start"
      [] tok = "end:" -> "end"

MemberValue(tok) ==
    CASE tok = "sum" -> Text("Call")
      [] tok = "loc" -> Text("Office")
      [] tok = "desc" -> Text("Weekly sync")
      [] tok = "err" -> Text("incomplete_time_info")
      [] tok = "dtA" -> DateA
      [] tok = "dtB" -> DateB
      [] tok = "dt0" -> EmptyStr
      [] tok = "dtL" -> DateL

JSONDecodeError == [ok |-> FALSE]

RECURSIVE ParseValue(_, _), ParseMembers(_, _, _)
\* the JSON value that starts at toks[i]: [ok, val, next]
ParseValue(toks, i) ==
    IF i > Len(toks) THEN JSONDecodeError
    ELSE CASE toks[i] = "{" ->
                IF i + 1 <= Len(toks) /\ toks[i + 1] = "}"
                THEN [ok |-> TRUE, val |-> EmptyDict, next |-> i + 2]
                ELSE ParseMembers(toks, i + 1, EmptyDict)
           [] toks[i] = "[1]" ->
                [ok |-> TRUE, val |-> List(<< Num(1) >>), next |-> i + 1]
           [] toks[i] = "null" -> [ok |-> TRUE, val |-> Null, next |-> i + 1]
           [] toks[i] = "7" -> [ok |-> TRUE, val |-> Num(7), next |-> i + 1]
           [] OTHER -> JSONDecodeError

\* the members of an object from toks[i] on, acc holding those read so far;
\* a repeated key keeps its last value
ParseMembers(toks, i, acc) ==
    IF i > Len(toks) THEN JSONDecodeError
    ELSE LET member ==
                 IF toks[i] \in MemberTokens
                 THEN [ok |-> TRUE, val |-> MemberValue(toks[i]), next |-> i + 1]
                 ELSE IF toks[i] \in KeyTokens
                 THEN ParseValue(toks, i + 1)
                 ELSE JSONDecodeError
         IN  IF ~member.ok THEN JSONDecodeError
             ELSE LET acc2 == Put(acc, MemberKey(toks[i]), member.val)
                      n == member.next
                  IN  IF n > Len(toks) THEN JSONDecodeError
                      ELSE IF toks[n] = "}"
                      THEN [ok |-> TRUE, val |-> acc2, next |-> n + 1]
                      ELSE IF toks[n] = ","
                      THEN ParseMembers(toks, n + 1, acc2)
                      ELSE JSONDecodeError

\* json.loads(text): [ok |-> TRUE, val |-> value] or JSONDecodeError
json_loads(toks) ==
    LET p == ParseValue(toks, 1)
    IN  IF p.ok /\ p.next = Len(toks) + 1
        THEN [ok |-> TRUE, val |-> p.val]
        ELSE JSONDecodeError

Positions(toks, tok) == {i \in 1..Len(toks) : toks[i] = tok}

Min(S) == CHOOSE x \in S : \A y \in S : x <= y

Max(S) == CHOOSE x \in S : \A y \in S : x >= y

\* a pattern with a lazy quantifier: from the first "{" to the next "}"
BraceMatchLazy(toks) ==
    LET opens == Positions(toks, "{")
        closes == {j \in Positions(toks, "}") : opens # {} /\ j > Min(opens)}
    IN  IF opens # {} /\ closes # {}
        THEN [found |-> TRUE, str |-> SubSeq(toks, Min(opens), Min(closes))]
        ELSE [found |-> FALSE]

\* re.search(json_pattern, text): from the first "{" to the last "}"
BraceMatch(toks) ==
    LET opens == Positions(toks, "{")
        closes == Positions(toks, "}")
    IN  IF opens # {} /\ closes # {} /\ Min(opens) < Max(closes)
        THEN [found |-> TRUE, str |-> SubSeq(toks, Min(opens), Max(closes))]
        ELSE [found |-> FALSE]

\* re.search(code_block_pattern, text): what lies between
\* the first fence and the next one, without the tag
CodeBlockMatch(toks) ==
    LET fences == Positions(toks, "fence")
    IN  IF Cardinality(fences) >= 2
        THEN LET f1 == Min(fences)
                 f2 == Min(fences \ {f1})
                 from == IF f1 + 1 < f2 /\ toks[f1 + 1] = "json"
                         THEN f1 + 2 ELSE f1 + 1
             IN  [found |-> TRUE, str |-> SubSeq(toks, from, f2 - 1)]
        ELSE [found |-> FALSE]

\* re.search(field_patterns[field], text): the first "field": "value"
FieldSearch(toks, field) ==
    LET hits == {i \in 1..Len(toks) :
                    toks[i] \in MemberTokens /\ MemberKey(toks[i]) = field}
    IN  IF hits # {} THEN [found |-> TRUE, group |-> MemberValue(toks[Min(hits)])]
        ELSE [found |-> FALSE]

\* re.findall(datetime_pattern, text): the dateTime values in text order
DateTimeMatches(toks) ==
    LET F[i \in 0..Len(toks)] ==
            IF i = 0 THEN <<>>
            ELSE IF toks[i] \in MemberTokens /\ MemberKey(toks[i]) = "dateTime"
                 THEN Append(F[i - 1], MemberValue(toks[i]))
                 ELSE F[i - 1]
    IN  F[Len(toks)]

FALLBACK_TIMEZONE == "America/Los_Angeles"

\* a third stage that fills start as soon as one dateTime is found
FieldExtractionStartOnly(toks) ==
    LET withField(ev, field) ==
            LET m == FieldSearch(toks, field)
            IN  IF m.found THEN Put(ev, field, m.group) ELSE ev
        e3 == withField(withField(withField(EmptyDict, "summary"), "location"),
                        "description")
        datetime_matches == DateTimeMatches(toks)
    IN  IF Len(datetime_matches) >= 2
        THEN Put(Put(e3, "start", [dateTime |-> datetime_matches[1],
                                   timeZone |-> Text(FALLBACK_TIMEZONE)]),
                 "end", [dateTime |-> datetime_matches[2],
                         timeZone |-> Text(FALLBACK_TIMEZONE)])
        ELSE IF Len(datetime_matches) = 1
        THEN Put(e3, "start", [dateTime |-> datetime_matches[1],
                               timeZone |-> Text(FALLBACK_TIMEZONE)])
        ELSE e3

\* the third stage: the event_data dict built field by field
FieldExtraction(toks) ==
    LET withField(ev, field) ==
            LET m == FieldSearch(toks, field)
            IN  IF m.found THEN Put(ev, field, m.group) ELSE ev
        e1 == withField(EmptyDict, "summary")
        e2 == withField(e1, "location")
        e3 == withField(e2, "description")
        datetime_matches == DateTimeMatches(toks)
    IN  IF Len(datetime_matches) >= 2
        THEN Put(Put(e3, "start", [dateTime |-> datetime_matches[1],
                                   timeZone |-> Text(FALLBACK_TIMEZONE)]),
                 "end", [dateTime |-> datetime_matches[2],
                         timeZone |-> Text(FALLBACK_TIMEZONE)])
        ELSE e3

\* a recovery that looks for the code block before the braces
extract_fence_first(toks) ==
    LET block == CodeBlockMatch(toks)
        fromBlock == IF block.found THEN json_loads(block.str) ELSE JSONDecodeError
        brace == BraceMatch(toks)
        fromBrace == IF brace.found THEN json_loads(brace.str) ELSE JSONDecodeError
        event_data == FieldExtraction(toks)
    IN  IF fromBlock.ok THEN [val |-> fromBlock.val, by |-> "code block"]
        ELSE IF fromBrace.ok THEN [val |-> fromBrace.val, by |-> "braces"]
        ELSE IF Truthy(event_data) THEN [val |-> event_data, by |-> "fields"]
        ELSE [val |-> Null, by |-> "none"]

\* a recovery that ends with the empty event_data when nothing was found
extract_returns_empty(toks) ==
    LET brace == BraceMatch(toks)
        fromBrace == IF brace.found THEN json_loads(brace.str) ELSE JSONDecodeError
        block == CodeBlockMatch(toks)
        fromBlock == IF block.found THEN json_loads(block.str) ELSE JSONDecodeError
        event_data == FieldExtraction(toks)
    IN  IF fromBrace.ok THEN [val |-> fromBrace.val, by |-> "braces"]
        ELSE IF fromBlock.ok THEN [val |-> fromBlock.val, by |-> "code block"]
        ELSE [val |-> event_data, by |-> IF Truthy(event_data) THEN "fields"
                                         ELSE "none"]

\* extract_json_from_text(text): val is the value returned (Null for None),
\* by the stage whose return statement returned it
extract_json_from_text(toks) ==
    LET brace == BraceMatch(toks)
        fromBrace == IF brace.found THEN json_loads(brace.str) ELSE JSONDecodeError
        block == CodeBlockMatch(toks)
        fromBlock == IF block.found THEN json_loads(block.str) ELSE JSONDecodeError
        event_data == FieldExtraction(toks)
    IN  IF fromBrace.ok THEN [val |-> fromBrace.val, by |-> "braces"]
        ELSE IF fromBlock.ok THEN [val |-> fromBlock.val, by |-> "code block"]
        ELSE IF Truthy(event_data) THEN [val |-> event_data, by |-> "fields"]
        ELSE [val |-> Null, by |-> "none"]

(***************************************************************************)
(* calendar_utils.create_calendar_event                                    *)
(***************************************************************************)
insert_max_retries == 3

\* what service.events().insert(..).execute() does on one attempt
InsertOutcomes == {"created", "HttpError", "Exception"}

RECURSIVE InsertLoopRetryAny(_, _, _)
\* a loop that repeats the insert after any exception
InsertLoopRetryAny(v, outcomes, retry_count) ==
    IF outcomes[retry_count + 1] = "created"
    THEN [result |-> [success |-> Bool(TRUE), event_id |-> Text("id"),
                      link |-> Text("htmlLink")],
          inserts |-> retry_count + 1, pauses |-> retry_count, body |-> v.event]
    ELSE IF retry_count + 1 >= insert_max_retries
    THEN [result |-> [success |-> Bool(FALSE), error |-> Text("HttpError"),
                      warnings |-> Null],
          inserts |-> retry_count + 1, pauses |-> retry_count, body |-> v.event]
    ELSE InsertLoopRetryAny(v, outcomes, retry_count + 1)

RECURSIVE InsertLoop(_, _, _)
\* the while loop from retry_count on; outcomes[i] is what the i-th insert
\* does; v is what validate_event_data returned
InsertLoop(v, outcomes, retry_count) ==
    LET outcome == outcomes[retry_count + 1]
        inserts == retry_count + 1
    IN  CASE outcome = "created" ->
                [result |->
                     IF Len(v.warnings) > 0
                     THEN [success |-> Bool(TRUE), event_id |-> Text("id"),
                           link |-> Text("htmlLink"),
                           warnings |-> List(v.warnings),
                           message |-> Text("Event created with some time parsing issues. Default times were used.")]
                     ELSE [success |-> Bool(TRUE), event_id |-> Text("id"),
                           link |-> Text("htmlLink")],
                 inserts |-> inserts, pauses |-> retry_count, body |-> v.event]
          [] outcome = "HttpError" ->
                IF retry_count + 1 >= insert_max_retries
                THEN [result |->
                          [success |-> Bool(FALSE), error |-> Text("HttpError"),
                           warnings |-> IF Len(v.warnings) > 0
                                        THEN List(v.warnings) ELSE Null],
                      inserts |-> inserts, pauses |-> retry_count, body |-> v.event]
                ELSE InsertLoop(v, outcomes, retry_count + 1)
          [] outcome = "Exception" ->
                [result |->
                     [success |-> Bool(FALSE),
                      error |-> Text("Unexpected error: Exception"),
                      warnings |-> List(v.warnings)],
                 inserts |-> inserts, pauses |-> retry_count, body |-> v.event]

\* a submission that gives up when the validation left warnings
AfterValidationStrict(v, outcomes) ==
    IF v.raised # "none" \/ Len(v.warnings) > 0
    THEN [result |-> [success |-> Bool(FALSE),
                      error |-> Text("Unexpected error"),
                      warnings |-> Null],
          inserts |-> 0, pauses |-> 0, body |-> Absent]
    ELSE InsertLoop(v, outcomes, 0)

\* create_calendar_event after validate_event_data gave v: an exception
\* from it is caught by the outer handler, else the inserts are attempted
AfterValidation(v, outcomes) ==
    IF v.raised # "none"
    THEN [result |-> [success |-> Bool(FALSE),
                      error |-> Text("Unexpected error"),
                      warnings |-> Null],
          inserts |-> 0, pauses |-> 0, body |-> Absent]
    ELSE InsertLoop(v, outcomes, 0)

\* create_calendar_event(service, event_data): the result mapping, the
\* number of inserts attempted and of pauses made, the body submitted
create_calendar_event(event_data, now, outcomes) ==
    AfterValidation(validate_event_data(event_data, now), outcomes)

(***************************************************************************)
(* calendar_utils.list_upcoming_events                                     *)
(***************************************************************************)
list_max_retries == 3

\* what one pass of the try body does: execute() returns items or none, or
\* it raises an HttpError whose text says "timed out", another HttpError,
\* or the body raises any other exception
ListOutcomes == {"items", "no items", "timed out", "HttpError", "Exception"}

TimedOutError ==
    Text("The request to fetch calendar events timed out. Please try again later.")

RECURSIVE ListLoop(_, _)
\* the while loop from retry_count on; outcomes[i] is what the i-th pass
\* does.  Null is None: the function ends without a return statement when
\* the loop is left by break
ListLoop(outcomes, retry_count) ==
    IF retry_count >= list_max_retries THEN Null
    ELSE CASE outcomes[retry_count + 1] = "no items" ->
                [success |-> Bool(TRUE), events |-> List(<<>>),
                 message |-> Text("No upcoming events found.")]
           [] outcomes[retry_count + 1] = "items" ->
                [success |-> Bool(TRUE),
                 events |-> List(<< Text("March 15, 2026 at 09:00 AM - Call") >>)]
           [] outcomes[retry_count + 1] = "HttpError" ->
                [success |-> Bool(FALSE), error |-> Text("HttpError")]
           [] outcomes[retry_count + 1] = "timed out"
                /\ retry_count + 1 >= list_max_retries ->
                [success |-> Bool(FALSE), error |-> TimedOutError]
           [] OTHER -> ListLoop(outcomes, retry_count + 1)

\* list_upcoming_events(service): what it returns
list_upcoming_events(outcomes) == ListLoop(outcomes, 0)

(***************************************************************************)
(* Inputs                                                                  *)
(***************************************************************************)
\* values datetime.now() takes: mid-morning; the last hour of a year; the
\* day before a leap day
Nows ==
    { DateTime(2025, 11, 1, 10, 30, 0, "naive"),
      DateTime(2025, 12, 31, 23, 15, 0, "naive"),
      DateTime(2028, 2, 28, 22, 40, 5, "naive") }

\* strings found under dateTime
DateStrings ==
    { DateA,
      IsoZ(2020, 3, 15, 9, 0, 0, "-07:00"),
      Iso(2024, 2, 29, 10, 0, 0),
      Iso(2026, 13, 1, 10, 0, 0),
      YmdHms(2029, 1, 5, 14, 30, 59),
      YmdHm(2026, 1, 5, 14, 30),
      Ymd(2025, 12, 25),
      Sl(3, 15, 2026), Sl(15, 3, 2026), Sl(3, 4, 2026), Sl(15, 15, 2026),
      SlHm(15, 3, 2026, 9, 0),
      SlHms(3, 4, 2019, 9, 0, 7),
      Nl(3, 18, 2026), Nl(0, 18, 2026),
      NlHm(3, 18, 2026, 3, 30, "PM"),
      NlH(3, 18, 2026, 3, "PM"),
      Text("tomorrow") }

\* everything found under dateTime: strings, the empty string, non-strings
DateTimeValues == DateStrings \cup {EmptyStr, Null, Num(5)}

\* everything found under start or end
TimeValues ==
    { Text("tomorrow"), Null, EmptyDict,
      [timeZone |-> Text(FALLBACK_TIMEZONE)] }
    \cup {[dateTime |-> dv] : dv \in DateTimeValues}
    \cup {[dateTime |-> dv, timeZone |-> Text(FALLBACK_TIMEZONE)] :
              dv \in DateTimeValues}

Opt(k, v) == IF v = Absent THEN EmptyDict ELSE (k :> v)

MkEvent(summary, start, end, attendees) ==
    Opt("summary", summary) @@ Opt("start", start) @@ Opt("end", end)
        @@ Opt("attendees", attendees)

\* the CandidateEvents validate_event_data is applied to
Candidates ==
    {MkEvent(Text("Call"), st, en, Absent) :
         st \in TimeValues \cup {Absent}, en \in TimeValues \cup {Absent}}
    \cup
    {Put(MkEvent(su, Absent, [dateTime |-> DateA], at), "location", Text("Office")) :
         su \in {Absent, EmptyStr, Text("Call")},
         at \in {Absent, Null, List(<<>>),
                 List(<< Text("a@x.com"), [email |-> Text("b@x.com")] >>)}}

ValOff ==
    /\ vpc = "off" /\ vin = Absent /\ vnow = Absent /\ vout = Absent
    /\ vheld = Absent /\ vre = Absent /\ vsub = Absent /\ vfmt = Absent

ExtOff == xpc = "off" /\ xtext = <<>> /\ xout = Absent

\* the locals of query_groq: attempt is the loop variable, log the outcomes
\* of the requests made, sleeps the number of time.sleep calls made
GroqIdle ==
    [pc |-> "idle", attempt |-> 0, log |-> <<>>, sleeps |-> 0,
     result |-> Absent]

AppOff ==
    /\ pc = "off" /\ messages = <<>> /\ pending = Absent
    /\ groq = GroqIdle /\ submissions = 0 /\ last = [run |-> "none"]
    /\ recording = FALSE /\ transcribed_text = Null /\ transcripts = 0

\* the sessions whose script runs call into speech_utils
Sessions == {"s1", "s2"}

\* a stop_recording call that has not been made
StopIdle == [pc |-> "idle"]

\* speech_utils as imported: no recording, no thread, no call in progress
RecOff ==
    /\ is_recording = FALSE /\ recording_thread = Null
    /\ recorded_file_path = Null /\ threads = <<>>
    /\ stops = [s \in Sessions |-> StopIdle]

(***************************************************************************)
(* SpecValidate: validate_event_data applied once to any candidate         *)
(***************************************************************************)
\* a list whose second and third entries are bare strings after a structured
\* one; one with an entry that is neither a string nor a mapping
AttendeeLists ==
    { List(<< [email |-> Text("b@x.com")], Text("a@x.com"), Text("c@x.com") >>),
      List(<< Text("a@x.com"), Num(7), [email |-> Text("b@x.com"),
                                        optional |-> Bool(TRUE)] >>) }

\* candidates with attendees and fields the validator has no rule for
AttendeeCandidates ==
    {Put(Put(MkEvent(Text("Call"), st, Absent, at), "colorId", Text("5")),
         "recurrence", List(<< Text("RRULE:FREQ=WEEKLY") >>)) :
         st \in {Absent, [dateTime |-> DateA]}, at \in AttendeeLists}

InitValidate ==
    /\ vpc = "input" /\ vin \in Candidates \cup AttendeeCandidates
    /\ vnow \in Nows /\ vout = Absent
    /\ vheld = vin /\ vre = Absent /\ vsub = Absent /\ vfmt = Absent
    /\ ExtOff /\ AppOff /\ RecOff

\* validated_event, parsing_errors = validate_event_data(event_data)
ValidateCall ==
    /\ vpc = "input"
    /\ vout' = validate_event_data(vin, vnow)
    /\ vheld' = InputAfter(vin, validate_event_data(vin, vnow))
    /\ vpc' = "done"
    /\ UNCHANGED <<vin, vnow, vre, vsub, vfmt>>
    /\ UNCHANGED extVars /\ UNCHANGED appVars /\ UNCHANGED recVars

\* the date and the time of day of a clock reading, each as one number that
\* grows with it
DayNumber(dt) == (dt.y * 12 + dt.mo) * 31 + dt.d

SecondOfDay(dt) == (dt.h * 60 + dt.mi) * 60 + dt.s

\* clock reading a is not before clock reading b
NotBefore(a, b) ==
    \/ DayNumber(a) > DayNumber(b)
    \/ DayNumber(a) = DayNumber(b) /\ SecondOfDay(a) >= SecondOfDay(b)

\* validate_event_data applied to the event it returned, at a time now that
\* is not before the first call's
RevalidateCall(now) ==
    /\ vpc = "done" /\ vout.raised = "none"
    /\ NotBefore(now, vnow)
    /\ vre' = [now |-> now, out |-> validate_event_data(vout.event, now)]
    /\ vpc' = "revalidated"
    /\ UNCHANGED <<vin, vnow, vout, vheld, vsub, vfmt>>
    /\ UNCHANGED extVars /\ UNCHANGED appVars /\ UNCHANGED recVars

\* the rest of create_calendar_event after the validation: the inserts
InsertCall(outcomes) ==
    /\ vpc = "done"
    /\ vsub' = [outcomes |-> outcomes, made |-> AfterValidation(vout, outcomes)]
    /\ vpc' = "submitted"
    /\ UNCHANGED <<vin, vnow, vout, vheld, vre, vfmt>>
    /\ UNCHANGED extVars /\ UNCHANGED appVars /\ UNCHANGED recVars

\* formatted = format_event_time_indian(event_data)
FormatCall ==
    /\ vpc = "input"
    /\ vfmt' = format_event_time_indian(vin, vnow)
    /\ vpc' = "formatted"
    /\ UNCHANGED <<vin, vnow, vout, vheld, vre, vsub>>
    /\ UNCHANGED extVars /\ UNCHANGED appVars /\ UNCHANGED recVars

NextValidate ==
    \/ ValidateCall
    \/ FormatCall
    \/ \E now \in Nows : RevalidateCall(now)
    \/ \E outcomes \in [1..insert_max_retries -> InsertOutcomes] :
           InsertCall(outcomes)

SpecValidate == InitValidate /\ [][NextValidate]_vars

\* ev[time_field]['dateTime'] is there and not empty
HasDateTime(ev, time_field) ==
    /\ time_field \in DOMAIN ev
    /\ IsDict(ev[time_field])
    /\ "dateTime" \in DOMAIN ev[time_field]
    /\ Truthy(ev[time_field]["dateTime"])

\* C1: for every candidate (start/end absent, a mapping with or without a
\* dateTime key, with an empty dateTime, or a non-mapping value) the event
\* validate_event_data returns has a non-empty start.dateTime and
\* end.dateTime.
C1_TimesAlwaysPresent ==
    vpc = "done" /\ vout.raised = "none" =>
        HasDateTime(vout.event, "start") /\ HasDateTime(vout.event, "end")

\* C2: validate_event_data never raises: for every candidate, also one with
\* an unparseable or non-string dateTime or with a date that is invalid
\* after the year correction, it returns the pair (event, warnings).
C2_NeverRaises ==
    vpc = "done" =>
        /\ vout.raised = "none"
        /\ IsDict(vout.event)
        /\ \A i \in DOMAIN vout.warnings :
               vout.warnings[i].field \in {"start", "end"}

\* a call whose start.dateTime is a number and whose end.dateTime is
\* 29 February of a past leap year, in a year that is no leap year
C2_Witness ==
    /\ vpc = "done"
    /\ vin = MkEvent(Text("Call"), [dateTime |-> Num(5)],
                     [dateTime |-> Iso(2024, 2, 29, 10, 0, 0)], Absent)
    /\ vnow.y = 2025
    /\ vout.warnings = << ErrorParsing("start", "TypeError"),
                          ErrorParsing("end", "ValueError") >>

\* validate_event_data has returned
Validated == vpc \in {"done", "revalidated", "submitted"}

\* the warnings that name time_field
WarningsFor(warnings, time_field) ==
    {i \in DOMAIN warnings : warnings[i].field = time_field}

\* C11: a candidate with start (end) entirely absent gets start (end) set to
\* {dateTime: now + 1h (now + 2h) in canonical form, timeZone: the default
\* zone}, and no warning names that field.
C11_AbsentFieldGetsDefault ==
    Validated =>
        /\ "start" \notin DOMAIN vin =>
              /\ vout.event["start"] =
                     [dateTime |-> Canonical(AddHours(vnow, 1)),
                      timeZone |-> Text("Asia/Kolkata")]
              /\ WarningsFor(vout.warnings, "start") = {}
        /\ "end" \notin DOMAIN vin =>
              /\ vout.event["end"] =
                     [dateTime |-> Canonical(AddHours(vnow, 2)),
                      timeZone |-> Text("Asia/Kolkata")]
              /\ WarningsFor(vout.warnings, "end") = {}

\* a call without start and end in the last hour of a year: both defaults
\* fall in the next year
C11_Witness ==
    /\ vpc = "done"
    /\ vin = MkEvent(Text("Call"), Absent, Absent, Absent)
    /\ vnow = DateTime(2025, 12, 31, 23, 15, 0, "naive")
    /\ vout.event["start"]["dateTime"] = IsoZ(2026, 1, 1, 0, 15, 0, "+05:30")
    /\ vout.event["end"]["dateTime"] = IsoZ(2026, 1, 1, 1, 15, 0, "+05:30")
    /\ vout.warnings = <<>>

\* ev[time_field] is a mapping whose dateTime is a string
HasDateTimeString(ev, time_field) ==
    /\ time_field \in DOMAIN ev
    /\ IsDict(ev[time_field])
    /\ "dateTime" \in DOMAIN ev[time_field]
    /\ IsStr(ev[time_field]["dateTime"])

\* C12: a start or end whose dateTime string matches none of the 11 formats
\* nor the natural-language fallback gets exactly one warning naming the
\* field and the default (now + 1h for start, now + 2h for end) as its
\* dateTime; a parseable dateTime string adds no warning.
C12_UnparseableWarnsOnce ==
    Validated =>
        \A f \in {"start", "end"} :
            HasDateTimeString(vin, f) =>
                IF parse_datetime(vin[f]["dateTime"]).r = "none"
                THEN /\ Cardinality(WarningsFor(vout.warnings, f)) = 1
                     /\ vout.event[f]["dateTime"] =
                            Canonical(AddHours(vnow, IF f = "start" THEN 1 ELSE 2))
                ELSE WarningsFor(vout.warnings, f) = {}

\* C13: after the call start.timeZone and end.timeZone are present and are
\* the default zone Asia/Kolkata, also for a candidate whose start or end
\* came with another zone.
C13_TimeZoneIsDefault ==
    Validated =>
        \A f \in {"start", "end"} :
            /\ f \in DOMAIN vout.event
            /\ IsDict(vout.event[f])
            /\ "timeZone" \in DOMAIN vout.event[f]
            /\ vout.event[f]["timeZone"] = Text("Asia/Kolkata")

\* the canonical form: YYYY-MM-DDTHH:MM:SS followed by the +05:30 offset
IsCanonical(v) ==
    IsStr(v) /\ v.k = "isoz" /\ v.off = DEFAULT_TIMEZONE_OFFSET
      /\ ValidFields(v.y, v.mo, v.d, v.h, v.mi, v.s)

\* C35: after format_event_time_indian every start/end present in the input
\* has timeZone equal to the default zone and a dateTime in canonical form
\* ending with +05:30, whatever the input value of the field was; fields
\* absent from the input stay absent.
C35_FormattedFieldsCanonical ==
    vpc = "formatted" =>
        \A f \in {"start", "end"} :
            IF f \in DOMAIN vin
            THEN /\ f \in DOMAIN vfmt
                 /\ IsDict(vfmt[f])
                 /\ Get(vfmt[f], "timeZone", Absent) = Text(DEFAULT_TIMEZONE)
                 /\ IsCanonical(Get(vfmt[f], "dateTime", Absent))
            ELSE f \notin DOMAIN vfmt

\* C14: a parseable start/end dateTime whose year is before the current
\* year is written with the current year and the month, day and time of day
\* it had, with no warning and no default; one whose year is not before the
\* current year keeps its year.
C14_PastYearRewritten ==
    Validated =>
        \A f \in {"start", "end"} :
            HasDateTimeString(vin, f)
              /\ parse_datetime(vin[f]["dateTime"]).r = "ok" =>
                LET dt == parse_datetime(vin[f]["dateTime"]).dt
                IN  /\ vout.event[f]["dateTime"] =
                           IsoZ(IF dt.y < vnow.y THEN vnow.y ELSE dt.y,
                                dt.mo, dt.d, dt.h, dt.mi, dt.s, "+05:30")
                    /\ WarningsFor(vout.warnings, f) = {}

\* ev[time_field]['dateTime'], Absent when there is none
DateTimeOf(ev, time_field) ==
    IF time_field \in DOMAIN ev /\ IsDict(ev[time_field])
       /\ "dateTime" \in DOMAIN ev[time_field]
    THEN ev[time_field]["dateTime"]
    ELSE Absent

\* the second call returned what the first did, without a warning
SecondCallChangesNothing ==
    /\ vre.out.raised = "none"
    /\ vre.out.warnings = <<>>
    /\ DateTimeOf(vre.out.event, "start") = DateTimeOf(vout.event, "start")
    /\ DateTimeOf(vre.out.event, "end") = DateTimeOf(vout.event, "end")

\* C15 (as stated): validate_event_data applied to an event it returned
\* yields the same start.dateTime and end.dateTime and no warning, whenever
\* the second call is made.
C15_Idempotent == vpc = "revalidated" => SecondCallChangesNothing

\* C15 (amended): validate_event_data applied to an event it returned, in
\* the calendar year of the first call, yields the same start.dateTime and
\* end.dateTime and no warning.
C15_IdempotentWithinYear ==
    vpc = "revalidated" /\ vre.now.y = vnow.y => SecondCallChangesNothing

\* a start of 2020 written as 2025 by the first call and left so by the
\* second, which runs later in 2025
C15_Witness ==
    /\ vpc = "revalidated"
    /\ vnow = DateTime(2025, 11, 1, 10, 30, 0, "naive")
    /\ vre.now = DateTime(2025, 12, 31, 23, 15, 0, "naive")
    /\ DateTimeOf(vin, "start") = IsoZ(2020, 3, 15, 9, 0, 0, "-07:00")
    /\ DateTimeOf(vout.event, "start") = IsoZ(2025, 3, 15, 9, 0, 0, "+05:30")
    /\ DateTimeOf(vre.out.event, "start") = IsoZ(2025, 3, 15, 9, 0, 0, "+05:30")

\* C16: the attendees list is mapped entry by entry: a bare string s becomes
\* {email: s}, any other entry is unchanged, length and order are kept.
C16_AttendeesElementwise ==
    Validated /\ "attendees" \in DOMAIN vin /\ IsList(vin["attendees"]) =>
        /\ IsList(vout.event["attendees"])
        /\ Len(vout.event["attendees"].items) = Len(vin["attendees"].items)
        /\ \A i \in 1..Len(vin["attendees"].items) :
               vout.event["attendees"].items[i] =
                   IF IsStr(vin["attendees"].items[i])
                   THEN [email |-> vin["attendees"].items[i]]
                   ELSE vin["attendees"].items[i]

\* a structured entry followed by two bare strings
C16_Witness ==
    /\ vpc = "done"
    /\ "attendees" \in DOMAIN vin
    /\ vin["attendees"] =
           List(<< [email |-> Text("b@x.com")], Text("a@x.com"), Text("c@x.com") >>)
    /\ vout.event["attendees"] =
           List(<< [email |-> Text("b@x.com")], [email |-> Text("a@x.com")],
                   [email |-> Text("c@x.com")] >>)

\* C17: the call leaves the caller's CandidateEvent as it was, nested start
\* and end mappings and attendees list included.
C17_InputUnchanged == Validated => vheld = vin

\* C18: every field name of the candidate is in the returned event, and a
\* field other than summary, start, end and attendees has its input value.
C18_NoFieldDropped ==
    Validated =>
        /\ DOMAIN vin \subseteq DOMAIN vout.event
        /\ \A k \in DOMAIN vin \ {"summary", "start", "end", "attendees"} :
               vout.event[k] = vin[k]

\* a candidate with colorId and recurrence and no end: both are returned,
\* and end is added
C18_Witness ==
    /\ vpc = "done"
    /\ {"colorId", "recurrence"} \subseteq DOMAIN vin
    /\ "end" \notin DOMAIN vin
    /\ vout.event["colorId"] = Text("5")
    /\ vout.event["recurrence"] = List(<< Text("RRULE:FREQ=WEEKLY") >>)
    /\ "end" \in DOMAIN vout.event

\* the first insert that does not end in an HttpError creates the event
InsertSucceeds(outcomes) ==
    \E i \in DOMAIN outcomes :
        /\ outcomes[i] = "created"
        /\ \A j \in 1..(i - 1) : outcomes[j] = "HttpError"

\* C19: with a non-empty warning list create_calendar_event still submits
\* the validated event, and when the insert succeeds the result has
\* success = true and carries the warnings.
C19_WarningsDoNotBlock ==
    vpc = "submitted" /\ Len(vout.warnings) > 0 =>
        /\ vsub.made.inserts >= 1
        /\ vsub.made.body = vout.event
        /\ InsertSucceeds(vsub.outcomes) =>
               /\ vsub.made.result["success"] = Bool(TRUE)
               /\ vsub.made.result["warnings"] = List(vout.warnings)

\* two warnings, a first insert that fails and a second that succeeds
C19_Witness ==
    /\ vpc = "submitted"
    /\ Len(vout.warnings) = 2
    /\ vsub.outcomes = << "HttpError", "created", "created" >>
    /\ vsub.made.inserts = 2
    /\ vsub.made.result["success"] = Bool(TRUE)
    /\ vsub.made.result["warnings"] = List(vout.warnings)

\* C23: a parseable dateTime is written back as the date and time read
\* from the string, with the year moved to the current one when it is
\* earlier, followed by +05:30, whatever offset the string had.
C23_NaiveComponentsKept ==
    Validated =>
        \A f \in {"start", "end"} :
            HasDateTimeString(vin, f)
              /\ parse_datetime(vin[f]["dateTime"]).r = "ok" =>
                /\ vout.event[f]["dateTime"].k = "isoz"
                /\ vout.event[f]["dateTime"].off = "+05:30"
                /\ << vout.event[f]["dateTime"].mo, vout.event[f]["dateTime"].d,
                      vout.event[f]["dateTime"].h, vout.event[f]["dateTime"].mi,
                      vout.event[f]["dateTime"].s >>
                     = << parse_datetime(vin[f]["dateTime"]).dt.mo,
                          parse_datetime(vin[f]["dateTime"]).dt.d,
                          parse_datetime(vin[f]["dateTime"]).dt.h,
                          parse_datetime(vin[f]["dateTime"]).dt.mi,
                          parse_datetime(vin[f]["dateTime"]).dt.s >>
                /\ vout.event[f]["dateTime"].y
                     = Max({parse_datetime(vin[f]["dateTime"]).dt.y, vnow.y})

\* d is a day of month mo of year y
IsDate(y, mo, d) == mo \in 1..12 /\ d \in 1..DaysInMonth(y, mo)

\* the strings with a slash-separated date among the dateTime values
SlashStrings == {v \in DateStrings : v.k \in {"sl", "sl_hm", "sl_hms"}}

\* C25: parse_datetime has 11 formats and the first that matches wins: a
\* slash-separated date a/b/year is read as month a, day b whenever that is
\* a date, as day a, month b only when it is not, and is not parsed when
\* neither is a date.
C25_MonthFirst ==
    /\ Len(Formats) = 11
    /\ Validated =>
        \A f \in {"start", "end"} :
            HasDateTimeString(vin, f) /\ vin[f]["dateTime"] \in SlashStrings =>
                LET v == vin[f]["dateTime"]
                    p == parse_datetime(vin[f]["dateTime"])
                IN  IF IsDate(v.y, v.a, v.b)
                    THEN p.r = "ok" /\ p.dt.mo = v.a /\ p.dt.d = v.b
                    ELSE IF IsDate(v.y, v.b, v.a)
                    THEN p.r = "ok" /\ p.dt.mo = v.b /\ p.dt.d = v.a
                    ELSE p.r = "none"

\* 3/4/2026 is 4 March, 15/3/2026 is 15 March
C25_Witness ==
    /\ vpc = "done"
    /\ DateTimeOf(vin, "start") = Sl(3, 4, 2026)
    /\ DateTimeOf(vin, "end") = Sl(15, 3, 2026)
    /\ DateTimeOf(vout.event, "start") = IsoZ(2026, 3, 4, 0, 0, 0, "+05:30")
    /\ DateTimeOf(vout.event, "end") = IsoZ(2026, 3, 15, 0, 0, 0, "+05:30")

\* the strings no format of the list matches
NoFormatStrings ==
    {v \in DateStrings : v.k \in {"nl", "nl_hm", "nl_h", "text"}}

\* C26: of the strings no format matches, 'Month Day, Year' parses to that
\* date at 12:00 noon, 'Month Day, Year at H:MM AM/PM' to that date at that
\* time, and a string without the 'Word Day, Year' pattern gives None.
C26_NaturalLanguageFallback ==
    Validated =>
        \A f \in {"start", "end"} :
            HasDateTimeString(vin, f) /\ vin[f]["dateTime"] \in NoFormatStrings =>
                LET v == vin[f]["dateTime"]
                    p == parse_datetime(vin[f]["dateTime"])
                IN  CASE v.k = "nl" /\ IsDate(v.y, v.word, v.d) ->
                            p = Parsed(DateTime(v.y, v.word, v.d, 12, 0, 0, "naive"))
                      [] v.k = "nl_hm" /\ IsDate(v.y, v.word, v.d)
                           /\ v.h \in 1..12 /\ v.mi \in 0..59 ->
                            p = Parsed(DateTime(v.y, v.word, v.d,
                                    (v.h % 12) + (IF v.ap = "PM" THEN 12 ELSE 0),
                                    v.mi, 0, "naive"))
                      [] v.k = "text" -> p.r = "none"
                      [] OTHER -> TRUE

\* 'March 18, 2026' is read as noon, 'March 18, 2026 at 3:30 PM' as 15:30
C26_Witness ==
    /\ vpc = "done"
    /\ DateTimeOf(vin, "start") = Nl(3, 18, 2026)
    /\ DateTimeOf(vin, "end") = NlHm(3, 18, 2026, 3, 30, "PM")
    /\ DateTimeOf(vout.event, "start") = IsoZ(2026, 3, 18, 12, 0, 0, "+05:30")
    /\ DateTimeOf(vout.event, "end") = IsoZ(2026, 3, 18, 15, 30, 0, "+05:30")
    /\ vout.warnings = <<>>

\* C27: 'Month Day, Year at H AM/PM', an hour without minutes, parses to
\* that date at that hour.
C27_HourOnlyParses ==
    Validated =>
        \A f \in {"start", "end"} :
            HasDateTimeString(vin, f) /\ vin[f]["dateTime"].k = "nl_h"
              /\ IsDate(vin[f]["dateTime"].y, vin[f]["dateTime"].word,
                        vin[f]["dateTime"].d)
              /\ vin[f]["dateTime"].h \in 1..12 =>
                parse_datetime(vin[f]["dateTime"]) =
                    Parsed(DateTime(vin[f]["dateTime"].y, vin[f]["dateTime"].word,
                               vin[f]["dateTime"].d,
                               (vin[f]["dateTime"].h % 12)
                                 + (IF vin[f]["dateTime"].ap = "PM" THEN 12 ELSE 0),
                               0, 0, "naive"))

\* C29: when start and end both parse (to datetimes of one kind: both
\* naive or both with the same offset) and start is not after end, the
\* returned start.dateTime is not after the returned end.dateTime.
C29_OrderPreserved ==
    Validated =>
      ( ( /\ HasDateTimeString(vin, "start") /\ HasDateTimeString(vin, "end")
          /\ parse_datetime(vin["start"]["dateTime"]).r = "ok"
          /\ parse_datetime(vin["end"]["dateTime"]).r = "ok"
          /\ parse_datetime(vin["start"]["dateTime"]).dt.tz
               = parse_datetime(vin["end"]["dateTime"]).dt.tz
          /\ NotBefore(parse_datetime(vin["end"]["dateTime"]).dt,
                       parse_datetime(vin["start"]["dateTime"]).dt) )
        => NotBefore(vout.event["end"]["dateTime"],
                     vout.event["start"]["dateTime"]) )

\* create_calendar_event runs to its end once called: execute() returns or
\* raises, time.sleep returns
FairSpecValidate ==
    SpecValidate
      /\ WF_vars(\E outcomes \in [1..insert_max_retries -> InsertOutcomes] :
                     InsertCall(outcomes))

\* the position of the insert that ends the loop: the first one that does
\* not raise HttpError, the third when all do
LastInsert(outcomes) ==
    IF \E i \in DOMAIN outcomes : outcomes[i] # "HttpError"
    THEN CHOOSE i \in DOMAIN outcomes :
             /\ outcomes[i] # "HttpError"
             /\ \A j \in 1..(i - 1) : outcomes[j] = "HttpError"
    ELSE 3

\* what C21 says of a call that has returned
C21_Returned ==
    vpc = "submitted" =>
        LET n == LastInsert(vsub.outcomes)
            made == vsub.made
        IN  /\ made.body = vout.event
            /\ made.inserts = n /\ made.inserts <= 3
            /\ made.pauses = made.inserts - 1
            /\ IsDict(made.result)
            /\ IF vsub.outcomes[n] = "created"
               THEN /\ made.result["success"] = Bool(TRUE)
                    /\ {"event_id", "link"} \subseteq DOMAIN made.result
               ELSE /\ made.result["success"] = Bool(FALSE)
                    /\ "error" \in DOMAIN made.result

\* C21: create_calendar_event validates once and submits what the
\* validation returned; it makes at most 3 inserts, one more only after an
\* HttpError and after a pause; the call returns, with success, event id
\* and link on the first insert that succeeds, with success = false and the
\* error after the third HttpError or after any other exception.
C21_BoundedInserts ==
    /\ []C21_Returned
    /\ (vpc = "done") ~> (vpc \in {"submitted", "revalidated"})

\* two HttpErrors, two pauses, and a third insert that succeeds
C21_Witness ==
    /\ vpc = "submitted"
    /\ vsub.outcomes = << "HttpError", "HttpError", "created" >>
    /\ vsub.made.inserts = 3 /\ vsub.made.pauses = 2
    /\ vsub.made.result["success"] = Bool(TRUE)

(***************************************************************************)
(* SpecExtract: the reply-text recovery applied once to any reply text     *)
(***************************************************************************)
\* the longest run of prose in front of a reply
MaxProse == 1

ProseTokens == {"w", "{", "}"}

SeqsUpTo(S, n) == UNION {[1..k -> S] : k \in 0..n}

Bodies ==
    { << "{", "sum", "}" >>,
      << "{", "sum", ",", "start:", "{", "dtA", "}", ",",
         "end:", "{", "dtB", "}", "}" >>,
      << "{", "err", "}" >>,
      << "{", "loc", ",", "start:", "{", "dt0", "}", "}" >>,
      << "{", "}" >>,
      << "{", "sum" >>,
      << "{", "sum", "w", "}" >>,
      << "sum", ",", "dtB", ",", "dtA" >>,
      << "desc", "dtA" >>,
      << "[1]" >>,
      << "null" >>,
      << "w" >>,
      << >> }

ReplyTexts ==
    { prose \o open \o body \o close \o tail :
          prose \in SeqsUpTo(ProseTokens, MaxProse),
          open \in { <<>>, << "fence" >>, << "fence", "json" >> },
          body \in Bodies,
          close \in { <<>>, << "fence" >> },
          tail \in { <<>>, << "w" >>, << "}" >> } }

\* main's  try: json.loads(assistant_content)  except json.JSONDecodeError:
\* extract_json_from_text(assistant_content)
ParseReply(toks) ==
    LET strict == json_loads(toks)
    IN  IF strict.ok THEN [val |-> strict.val, by |-> "strict"]
        ELSE extract_json_from_text(toks)

InitExtract ==
    /\ xpc = "input" /\ xtext \in ReplyTexts /\ xout = Absent
    /\ ValOff /\ AppOff /\ RecOff

ExtractCall ==
    /\ xpc = "input"
    /\ xout' = ParseReply(xtext)
    /\ xpc' = "done"
    /\ UNCHANGED xtext
    /\ UNCHANGED valVars /\ UNCHANGED appVars /\ UNCHANGED recVars

SpecExtract == InitExtract /\ [][ExtractCall]_vars

BraceParse(toks) ==
    IF BraceMatch(toks).found THEN json_loads(BraceMatch(toks).str)
    ELSE JSONDecodeError

BlockParse(toks) ==
    IF CodeBlockMatch(toks).found THEN json_loads(CodeBlockMatch(toks).str)
    ELSE JSONDecodeError

\* C7: the reply is parsed as strict JSON first; the recovery runs only if
\* that fails and tries the brace substring, the code block, the field
\* patterns in this order, returning what the first success gives: a later
\* stage produces the result only if every earlier one failed.
C7_FirstSuccessWins ==
    xpc = "done" =>
        LET strict == json_loads(xtext)
            brace == BraceParse(xtext)
            block == BlockParse(xtext)
        IN  /\ strict.ok => xout = [val |-> strict.val, by |-> "strict"]
            /\ ~strict.ok /\ brace.ok =>
                   xout = [val |-> brace.val, by |-> "braces"]
            /\ xout.by = "code block" =>
                   ~strict.ok /\ ~brace.ok /\ xout.val = block.val
            /\ xout.by = "fields" =>
                   /\ ~strict.ok /\ ~brace.ok /\ ~block.ok
                   /\ xout.val = FieldExtraction(xtext)
            /\ xout.by = "none" =>
                   ~strict.ok /\ ~brace.ok /\ ~block.ok /\ xout.val = Null

\* a reply whose brace substring does not parse and whose code block does
C7_Witness ==
    /\ xpc = "done"
    /\ xtext = << "{", "fence", "json", "{", "sum", "}", "fence", "w" >>
    /\ xout = [val |-> [summary |-> Text("Call")], by |-> "code block"]

\* toks is prose, then a fence (with or without the json tag), then a valid
\* JSON object, then the closing fence
FencedObjectAfter(toks, p) ==
    /\ p >= 1 /\ p + 2 < Len(toks)
    /\ \A i \in 1..p : toks[i] \in ProseTokens
    /\ toks[p + 1] = "fence"
    /\ toks[Len(toks)] = "fence"
    /\ LET from == IF toks[p + 2] = "json" THEN p + 3 ELSE p + 2
           inner == json_loads(SubSeq(toks, from, Len(toks) - 1))
       IN  inner.ok /\ IsDict(inner.val)

FencedObject(toks, p) ==
    json_loads(SubSeq(toks, IF toks[p + 2] = "json" THEN p + 3 ELSE p + 2,
                      Len(toks) - 1)).val

\* C8 as stated: for prose followed by a fenced code block holding a valid
\* JSON object, the object is produced by the code-block stage and not by
\* the brace stage.
C8_FencedObjectViaCodeBlock ==
    xpc = "done" =>
        \A p \in 1..Len(xtext) :
            FencedObjectAfter(xtext, p) =>
                xout = [val |-> FencedObject(xtext, p), by |-> "code block"]

\* C8 amended: for prose without a "{" followed by a fenced code block
\* holding a valid JSON object, extraction yields that object through the
\* brace stage, which runs first; the code-block stage produces a result
\* only when the brace substring does not parse.
C8_FencedObjectViaBraces ==
    xpc = "done" =>
        /\ \A p \in 1..Len(xtext) :
               /\ FencedObjectAfter(xtext, p)
               /\ \A i \in 1..p : xtext[i] # "{"
               => xout = [val |-> FencedObject(xtext, p), by |-> "braces"]
        /\ xout.by = "code block" => ~BraceParse(xtext).ok

\* the reply  Sure! (fence)json {"summary": "Call"} (fence)
C8_Witness ==
    /\ xpc = "done"
    /\ xtext = << "w", "fence", "json", "{", "sum", "}", "fence" >>
    /\ xout = [val |-> [summary |-> Text("Call")], by |-> "braces"]

\* the positions of the "dateTime": "..." occurrences of a text
DateTimePositions(toks) ==
    {i \in 1..Len(toks) : toks[i] \in {"dtA", "dtB", "dt0", "dtL"}}

\* the positions of the "summary", "location" and "description" members
FieldPositions(toks) ==
    {i \in 1..Len(toks) : toks[i] \in {"sum", "loc", "desc"}}

\* C24: when the text is no strict JSON, its brace substring and its code
\* block do not parse, no summary, location or description is found and
\* fewer than two dateTime occurrences are, extract_json_from_text returns
\* None, not an empty object.
C24_NothingRecoveredIsNone ==
    xpc = "done"
      /\ ~json_loads(xtext).ok /\ ~BraceParse(xtext).ok /\ ~BlockParse(xtext).ok
      /\ FieldPositions(xtext) = {}
      /\ Cardinality(DateTimePositions(xtext)) < 2
      => xout.val = Null /\ xout.by = "none"

\* prose around a fenced block whose content is no JSON
C24_Witness ==
    /\ xpc = "done"
    /\ xtext = << "w", "fence", "json", "w", "fence", "w" >>
    /\ xout = [val |-> Null, by |-> "none"]

\* C28: in the field-pattern stage two or more dateTime occurrences give
\* start the first and end the second, both with the fallback zone; fewer
\* than two give neither start nor end.
C28_StartAndEndTogether ==
    xpc = "done" /\ xout.by \in {"fields", "none"} =>
        IF Cardinality(DateTimePositions(xtext)) >= 2
        THEN LET first == Min(DateTimePositions(xtext))
                 second == Min(DateTimePositions(xtext) \ {first})
             IN  /\ xout.by = "fields"
                 /\ xout.val["start"] =
                        [dateTime |-> MemberValue(xtext[first]),
                         timeZone |-> Text("America/Los_Angeles")]
                 /\ xout.val["end"] =
                        [dateTime |-> MemberValue(xtext[second]),
                         timeZone |-> Text("America/Los_Angeles")]
        ELSE \/ xout.by = "none"
             \/ {"start", "end"} \cap DOMAIN xout.val = {}

\* two occurrences, the later date first: start gets it; and a text with a
\* single occurrence is covered by the formula's other branch
C28_Witness ==
    /\ xpc = "done"
    /\ xtext = << "sum", ",", "dtB", ",", "dtA" >>
    /\ xout.by = "fields"
    /\ xout.val["start"] = [dateTime |-> DateB,
                            timeZone |-> Text("America/Los_Angeles")]
    /\ xout.val["end"] = [dateTime |-> DateA,
                          timeZone |-> Text("America/Los_Angeles")]

\* C34: every value extract_json_from_text returns other than None is a
\* non-empty mapping: never an empty object, never a list, string or number.
C34_RecoveredIsNonEmptyMapping ==
    xpc = "done" /\ xout.by \in {"braces", "code block", "fields", "none"}
      /\ xout.val # Null
      => IsDict(xout.val) /\ DOMAIN xout.val # {}

(***************************************************************************)
(* llm_utils.query_groq                                                    *)
(***************************************************************************)
max_retries == 5

\* the text of a reply as a Python string
ReplyStr(toks) == [t |-> "str", k |-> "reply", toks |-> toks]

\* a chat-completion body: {choices: [{message: {content: text}}]}
Payload(toks) ==
    [choices |-> List(<< [message |-> [content |-> ReplyStr(toks)]] >>)]

\* a JSON body without choices
MalformedPayload == [id |-> Text("chatcmpl-1")]

StatusError(code) == [t |-> "str", k |-> "API request failed with status code", code |-> code]

ExceptionError(msg) == [t |-> "str", k |-> "An exception occurred:", msg |-> msg]

MaxRetriesError == Text("Max retries reached. Model is still loading or unavailable.")

\* the reply texts the backend sends in the session model
AppReplies ==
    { << "{", "sum", ",", "start:", "{", "dtA", "}", ",",
         "end:", "{", "dtB", "}", "}" >>,
      << "{", "sum", ",", "start:", "{", "dtL", "}", ",",
         "end:", "{", "dtL", "}", "}" >>,
      << "{", "err", "}" >>,
      << "{", "err", ",", "start:", "{", "dtA", "}", "}" >>,
      << "{", "sum", "}" >>,
      << "{", "loc", ",", "start:", "{", "dt0", "}", "}" >>,
      << "{", "start:", "null", "}" >>,
      << "[1]" >>,
      << "w", "fence", "json", "{", "sum", ",", "start:", "{", "dtA", "}", ",",
         "end:", "{", "dtB", "}", "}", "fence" >>,
      << "w", "{", "err", "}" >>,
      << "w", "fence", "{", "sum", "}", "fence" >>,
      << "sum", ",", "dtB", ",", "dtA" >>,
      << "fence", "[1]", "fence" >>,
      << "fence", "null", "fence" >>,
      << "{", "sum", ",", "start:", "{", "dtA", "}", ",", "end:", "null", "}" >>,
      << "w" >> }

\* what requests.post does on one attempt: a response with a status (json
\* is the decoded body, Absent when the body is not JSON), or an exception
Responses ==
    {[kind |-> "response", status |-> 200, json |-> Payload(toks)] :
         toks \in AppReplies}
    \cup
    { [kind |-> "response", status |-> 200, json |-> MalformedPayload],
      [kind |-> "response", status |-> 200, json |-> Absent],
      [kind |-> "response", status |-> 503, text |-> Text("loading")],
      [kind |-> "response", status |-> 400, text |-> Text("bad request")],
      [kind |-> "response", status |-> 500, text |-> Text("internal error")],
      [kind |-> "exception", msg |-> "Connection refused"] }

Returned(g, result) == [g EXCEPT !.pc = "returned", !.result = result]

\* a handler that takes an exception for a transient failure and goes on
\* to the delay and the next attempt
OnExceptionRetry(g, msg) == [g EXCEPT !.pc = "sleep"]

\* except Exception as e: return {"error": ...}
OnException(g, msg) == Returned(g, [error |-> ExceptionError(msg)])

\* a status check that takes every 5xx status for a transient overload
OnResponseRetry5xx(g, resp) ==
    IF resp.status = 200
    THEN IF resp.json = Absent
         THEN OnException(g, "Expecting value")
         ELSE Returned(g, resp.json)
    ELSE IF resp.status >= 500
    THEN [g EXCEPT !.pc = "sleep"]
    ELSE Returned(g, [error |-> StatusError(resp.status), details |-> resp.text])

\* the if / elif / else on response.status_code, inside the try
OnResponse(g, resp) ==
    IF resp.status = 200
    THEN IF resp.json = Absent
         THEN OnException(g, "Expecting value")
         ELSE Returned(g, resp.json)
    ELSE IF resp.status = 503
    THEN [g EXCEPT !.pc = "sleep"]
    ELSE Returned(g, [error |-> StatusError(resp.status), details |-> resp.text])

\* one attempt: requests.post and what the try block makes of its outcome
GroqPost(resp) ==
    /\ pc = "groq" /\ groq.pc = "post"
    /\ LET g == [groq EXCEPT !.log = Append(@, resp)]
           g2 == IF resp.kind = "exception" THEN OnException(g, resp.msg)
                 ELSE OnResponse(g, resp)
       IN  /\ groq' = g2
           /\ pc' = IF g2.pc = "returned" THEN "reply" ELSE "groq"
    /\ UNCHANGED <<messages, pending, submissions, last>> /\ UNCHANGED micVars
    /\ UNCHANGED valVars /\ UNCHANGED extVars /\ UNCHANGED recVars

\* a loop that makes one attempt more than max_retries
GroqSleepOffByOne ==
    /\ pc = "groq" /\ groq.pc = "sleep"
    /\ LET g == [groq EXCEPT !.sleeps = @ + 1, !.attempt = @ + 1]
       IN  IF g.attempt <= max_retries
           THEN groq' = [g EXCEPT !.pc = "post"] /\ pc' = "groq"
           ELSE groq' = Returned(g, [error |-> MaxRetriesError]) /\ pc' = "reply"
    /\ UNCHANGED <<messages, pending, submissions, last>> /\ UNCHANGED micVars
    /\ UNCHANGED valVars /\ UNCHANGED extVars /\ UNCHANGED recVars

\* time.sleep(retry_delay), then the next iteration of the for loop, or the
\* return that follows the loop when range(max_retries) is used up
GroqSleep ==
    /\ pc = "groq" /\ groq.pc = "sleep"
    /\ LET g == [groq EXCEPT !.sleeps = @ + 1, !.attempt = @ + 1]
       IN  IF g.attempt < max_retries
           THEN groq' = [g EXCEPT !.pc = "post"] /\ pc' = "groq"
           ELSE groq' = Returned(g, [error |-> MaxRetriesError]) /\ pc' = "reply"
    /\ UNCHANGED <<messages, pending, submissions, last>> /\ UNCHANGED micVars
    /\ UNCHANGED valVars /\ UNCHANGED extVars /\ UNCHANGED recVars

(***************************************************************************)
(* app.main: the Streamlit session                                         *)
(***************************************************************************)
\* the longest chat history followed
MaxMessages == 4

\* the most transcripts one session is followed through
MaxRecordings == 2

\* {"role": "user", "content": user_prompt}
UserMessageOf(user_prompt) == [role |-> "user", content |-> user_prompt]

\* the user message of a typed utterance
UserMessage == UserMessageOf(Text("Lunch with Sam tomorrow at noon"))

\* the text transcribe_with_groq returns for the n-th recording transcribed
Transcript(n) == [t |-> "str", k |-> "transcript", n |-> n]

Assistant(content) == [role |-> "assistant", content |-> content]

\* the five places that set the rejection message (its leading cross mark
\* is left out of the strings)
MsgSentinelStrict ==
    Text("Not able to get the time or details are incomplete. Please provide more specific date and time information.")

MsgNoStartStrict ==
    Text("Not able to get the time or details are incomplete. Please provide more specific date and time information.")

MsgSentinelRecovered ==
    Text("Not able to get the time or details are incomplete. Please provide more specific date and time information.")

MsgNoStartRecovered ==
    Text("Not able to get the time or details are incomplete. Please provide more specific date and time information.")

MsgNoCandidate ==
    Text("Not able to get the time or details are incomplete. Please provide more specific date and time information.")

MsgBackendError(error) == [t |-> "str", k |-> "Error:", error |-> error]

MsgCreated == Text("Event created successfully!")

MsgFailed(error) == [t |-> "str", k |-> "Failed to create event:", error |-> error]

MsgCanceled == Text("Event creation canceled.")

\* what the rest of a script run does: say are the assistant messages it
\* appends, store the pending event it stores (Absent: none)
Outcome(run, why, path, say, store) ==
    [run |-> run, why |-> why, path |-> path, say |-> say, store |-> store]

\* an exception other than JSONDecodeError ends the script run
Crash(exc, path) == Outcome("crashed", exc, path, <<>>, Absent)

\* candidate checks that store an event whatever its start
CheckCandidateNoStartCheck(event_json, path) ==
    IF ~IsDict(event_json) THEN Crash("AttributeError", path)
    ELSE IF Get(event_json, "error", Null) = Text("incomplete_time_info")
    THEN Outcome("rejected", "sentinel", path,
                 << Assistant(IF path = "strict" THEN MsgSentinelStrict
                              ELSE MsgSentinelRecovered) >>, Absent)
    ELSE Outcome("stored", "complete", path, <<>>, event_json)

\* the checks between parsing a candidate and storing it, on the strict
\* and on the recovered path
CheckCandidate(event_json, path) ==
    IF ~IsDict(event_json) THEN Crash("AttributeError", path)
    ELSE IF Get(event_json, "error", Null) = Text("incomplete_time_info")
    THEN Outcome("rejected", "sentinel", path,
                 << Assistant(IF path = "strict" THEN MsgSentinelStrict
                              ELSE MsgSentinelRecovered) >>, Absent)
    ELSE LET start == Get(event_json, "start", EmptyDict)
         IN  IF ~IsDict(start) THEN Crash("AttributeError", path)
             ELSE IF ~Truthy(Get(start, "dateTime", Null))
             THEN Outcome("rejected", "no start", path,
                          << Assistant(IF path = "strict" THEN MsgNoStartStrict
                                       ELSE MsgNoStartRecovered) >>, Absent)
             ELSE Outcome("stored", "complete", path, <<>>, event_json)

\* a handler of the recovered value that stores an event when nothing was
\* recovered
AfterExtractFabricate(extracted_json) ==
    IF Truthy(extracted_json)
    THEN CheckCandidate(extracted_json, "recovered")
    ELSE Outcome("stored", "no candidate", "recovered", <<>>,
                 [summary |-> Text("Untitled Event")])

\* the except json.JSONDecodeError branch after extract_json_from_text
AfterExtract(extracted_json) ==
    IF Truthy(extracted_json)
    THEN CheckCandidate(extracted_json, "recovered")
    ELSE Outcome("rejected", "no candidate", "recovered",
                 << Assistant(MsgNoCandidate) >>, Absent)

\* the try / except json.JSONDecodeError on the reply text
ProcessContent(content) ==
    IF json_loads(content.toks).ok
    THEN CheckCandidate(json_loads(content.toks).val, "strict")
    ELSE AfterExtract(extract_json_from_text(content.toks).val)

\* main from  if "error" in response  on
ProcessResponse(response) ==
    IF "error" \in DOMAIN response
    THEN Outcome("backend error", "error", "none",
                 << Assistant(MsgBackendError(response["error"])) >>, Absent)
    ELSE IF "choices" \notin DOMAIN response
    THEN Crash("KeyError", "none")
    ELSE ProcessContent(response["choices"].items[1]["message"]["content"])

Observed(o) == [run |-> o.run, why |-> o.why, path |-> o.path]

Init ==
    /\ pc = "idle" /\ messages = <<>> /\ pending = Absent
    /\ groq = GroqIdle /\ submissions = 0 /\ last = [run |-> "none"]
    /\ recording = FALSE /\ transcribed_text = Null /\ transcripts = 0
    /\ ValOff /\ ExtOff /\ RecOff

\* the confirmation text cannot be built for event_json: get is called on
\* its start, its end and on every entry of its attendees
DisplayRaises(event_json) ==
    \/ ~IsDict(Get(event_json, "start", EmptyDict))
    \/ ~IsDict(Get(event_json, "end", EmptyDict))
    \/ /\ "attendees" \in DOMAIN event_json
       /\ LET attendees == event_json["attendees"]
          IN  IF IsList(attendees)
              THEN \E i \in DOMAIN attendees.items : ~IsDict(attendees.items[i])
              ELSE IF IsDict(attendees) \/ IsStr(attendees) THEN Truthy(attendees)
              ELSE TRUE

\* a script run reaches the voice and chat inputs with a prompt from source:
\* a transcript in the session is taken before any typed text
HasPrompt(source) ==
    IF source = "transcribed"
    THEN pc \in {"idle", "rerun"} /\ Truthy(transcribed_text)
    ELSE pc = "idle" /\ ~Truthy(transcribed_text)

\* user_prompt of that run
UserPrompt(source) ==
    IF source = "transcribed" THEN transcribed_text
    ELSE Text("Lunch with Sam tomorrow at noon")

\* a run that leaves the transcript in the session
ClearTranscribedTextNever(source) == transcribed_text' = transcribed_text

\* st.session_state.transcribed_text = None, on the branch that took it
ClearTranscribedText(source) ==
    transcribed_text' = IF source = "transcribed" THEN Null ELSE transcribed_text

\* a script run with a new utterance and no pending event: the user
\* message is appended and query_groq is entered
SubmitUtterance(source) ==
    /\ HasPrompt(source) /\ pending = Absent
    /\ Len(messages) + 2 <= MaxMessages
    /\ ClearTranscribedText(source)
    /\ messages' = Append(messages, UserMessageOf(UserPrompt(source)))
    /\ groq' = [GroqIdle EXCEPT !.pc = "post"]
    /\ pc' = "groq"
    /\ UNCHANGED <<pending, submissions, last, recording, transcripts>>
    /\ UNCHANGED valVars /\ UNCHANGED extVars /\ UNCHANGED recVars

\* the session after a script run with outcome o
Finish(o) ==
    /\ messages' = messages \o o.say
    /\ pending' = o.store
    /\ last' = Observed(o)

\* the rest of that script run, once query_groq has returned
HandleResponse ==
    /\ pc = "reply"
    /\ Finish(ProcessResponse(groq.result))
    /\ groq' = GroqIdle
    /\ pc' = "idle"
    /\ UNCHANGED submissions /\ UNCHANGED micVars
    /\ UNCHANGED valVars /\ UNCHANGED extVars /\ UNCHANGED recVars

\* what the click on "Yes, Schedule It" appends for the result c of
\* create_calendar_event
AfterCreate(c) ==
    /\ messages' = Append(messages,
           Assistant(IF Truthy(Get(c.result, "success", Null))
                     THEN MsgCreated
                     ELSE MsgFailed(Get(c.result, "error", Null))))
    /\ last' = [run |-> "confirmed", why |-> c.result["success"],
                path |-> "none", result |-> c.result]

\* a click on "Yes, Schedule It" that keeps the event when the insert failed
ConfirmKeepsFailed(now, outcomes) ==
    /\ pc = "idle" /\ pending # Absent /\ ~DisplayRaises(pending)
    /\ AfterCreate(create_calendar_event(pending, now, outcomes))
    /\ submissions' = submissions + 1
    /\ pending' = IF Truthy(last'.why) THEN Absent ELSE pending
    /\ UNCHANGED <<pc, groq>> /\ UNCHANGED micVars
    /\ UNCHANGED valVars /\ UNCHANGED extVars /\ UNCHANGED recVars

\* the script run of a click on "Yes, Schedule It"
Confirm(now, outcomes) ==
    /\ pc = "idle" /\ pending # Absent /\ ~DisplayRaises(pending)
    /\ AfterCreate(create_calendar_event(pending, now, outcomes))
    /\ submissions' = submissions + 1
    /\ pending' = Absent
    /\ UNCHANGED <<pc, groq>> /\ UNCHANGED micVars
    /\ UNCHANGED valVars /\ UNCHANGED extVars /\ UNCHANGED recVars

\* the script run of a click on "No, Ignore"
Cancel ==
    /\ pc = "idle" /\ pending # Absent /\ ~DisplayRaises(pending)
    /\ messages' = Append(messages, Assistant(MsgCanceled))
    /\ pending' = Absent
    /\ last' = [run |-> "canceled", why |-> "user", path |-> "none"]
    /\ UNCHANGED <<pc, groq, submissions>> /\ UNCHANGED micVars
    /\ UNCHANGED valVars /\ UNCHANGED extVars /\ UNCHANGED recVars

\* a script run with an event pending whose confirmation text cannot be
\* built: the run ends at the exception, before any button is drawn
PendingDisplayCrash ==
    /\ pc = "idle" /\ pending # Absent /\ DisplayRaises(pending)
    /\ last' = [run |-> "crashed", why |-> "AttributeError", path |-> "display"]
    /\ UNCHANGED <<pc, messages, pending, groq, submissions>>
    /\ UNCHANGED micVars
    /\ UNCHANGED valVars /\ UNCHANGED extVars /\ UNCHANGED recVars

\* a run that takes the utterance although an event is pending
UtteranceWhilePendingQueries(source) ==
    /\ HasPrompt(source) /\ pending # Absent /\ ~DisplayRaises(pending)
    /\ Len(messages) + 2 <= MaxMessages
    /\ ClearTranscribedText(source)
    /\ messages' = Append(messages, UserMessageOf(UserPrompt(source)))
    /\ groq' = [GroqIdle EXCEPT !.pc = "post"]
    /\ pc' = "groq"
    /\ last' = [run |-> "ignored", why |-> source, path |-> "none"]
    /\ UNCHANGED <<pending, submissions, recording, transcripts>>
    /\ UNCHANGED valVars /\ UNCHANGED extVars /\ UNCHANGED recVars

\* a script run with a new utterance, typed or transcribed, while an event
\* is pending: the confirmation is shown again, no button is clicked, the
\* transcript is taken and cleared as in any run, and the condition on
\* 'pending_event' not in st.session_state skips the rest
UtteranceWhilePending(source) ==
    /\ HasPrompt(source) /\ pending # Absent /\ ~DisplayRaises(pending)
    /\ ClearTranscribedText(source)
    /\ pc' = "idle"
    /\ last' = [run |-> "ignored", why |-> source, path |-> "none"]
    /\ UNCHANGED <<messages, pending, groq, submissions, recording, transcripts>>
    /\ UNCHANGED valVars /\ UNCHANGED extVars /\ UNCHANGED recVars

\* the script run of a click on "Start Recording"
StartRecordingRun ==
    /\ pc = "idle" /\ ~recording /\ ~DisplayRaises(pending)
    /\ transcripts < MaxRecordings
    /\ recording' = TRUE
    /\ last' = [run |-> "recording", why |-> "button", path |-> "none"]
    /\ UNCHANGED <<pc, messages, pending, groq, submissions,
                   transcribed_text, transcripts>>
    /\ UNCHANGED valVars /\ UNCHANGED extVars /\ UNCHANGED recVars

\* what stop_recording and transcribe_with_groq give one click on "Stop
\* Recording": a text, no text for the file, or no file at all
StopOutcomes == {"text", "no text", "no file"}

\* the script run of a click on "Stop Recording", up to its st.rerun(); the
\* run that follows a stored transcript is the next step
StopRecordingRun(outcome) ==
    /\ pc = "idle" /\ recording /\ ~DisplayRaises(pending)
    /\ pending # Absent \/ Len(messages) + 2 <= MaxMessages
    /\ recording' = FALSE
    /\ IF outcome = "text"
       THEN /\ transcripts' = transcripts + 1
            /\ transcribed_text' = Transcript(transcripts + 1)
            /\ pc' = "rerun"
       ELSE UNCHANGED <<pc, transcribed_text, transcripts>>
    /\ last' = [run |-> "stopped", why |-> outcome, path |-> "none"]
    /\ UNCHANGED <<messages, pending, groq, submissions>>
    /\ UNCHANGED valVars /\ UNCHANGED extVars /\ UNCHANGED recVars

\* what the script run shows for events_result; None has no get
ShownForList(events_result) ==
    IF ~IsDict(events_result) THEN "AttributeError"
    ELSE IF Truthy(Get(events_result, "success", Null))
    THEN (IF Truthy(Get(events_result, "events", Null))
          THEN "events" ELSE "no events")
    ELSE "error"

\* the script run of a click on "List Upcoming Events"
ListEvents(outcomes) ==
    /\ pc = "idle" /\ ~DisplayRaises(pending)
    /\ last' = [run |-> "listed", why |-> "button", path |-> "none",
                result |-> list_upcoming_events(outcomes),
                shown |-> ShownForList(list_upcoming_events(outcomes))]
    /\ UNCHANGED <<pc, messages, pending, groq, submissions>>
    /\ UNCHANGED micVars
    /\ UNCHANGED valVars /\ UNCHANGED extVars /\ UNCHANGED recVars

GroqStep == (\E resp \in Responses : GroqPost(resp)) \/ GroqSleep

Next ==
    \/ \E source \in {"typed", "transcribed"} : SubmitUtterance(source)
    \/ GroqStep
    \/ HandleResponse
    \/ \E now \in Nows, outcomes \in [1..insert_max_retries -> InsertOutcomes] :
           Confirm(now, outcomes)
    \/ Cancel
    \/ \E source \in {"typed", "transcribed"} : UtteranceWhilePending(source)
    \/ \E outcomes \in [1..list_max_retries -> ListOutcomes] :
           ListEvents(outcomes)
    \/ PendingDisplayCrash
    \/ StartRecordingRun
    \/ \E outcome \in StopOutcomes : StopRecordingRun(outcome)

Spec == Init /\ [][Next]_vars

\* query_groq runs to its end once called: requests.post returns or raises,
\* time.sleep returns
FairSpec == Spec /\ WF_vars(GroqStep)

(***************************************************************************)
(* Claims about query_groq                                                 *)
(***************************************************************************)
Is503(entry) == entry.kind = "response" /\ entry.status = 503

\* the attempt raised: requests.post did, or response.json() did on a 200
\* whose body is not JSON
Raised(entry) ==
    \/ entry.kind = "exception"
    \/ entry.kind = "response" /\ entry.status = 200 /\ entry.json = Absent

ExceptionMessage(entry) ==
    IF entry.kind = "exception" THEN entry.msg ELSE "Expecting value"

C3_Bounded ==
    /\ Len(groq.log) <= 5
    /\ \A k \in 1..(Len(groq.log) - 1) : Is503(groq.log[k])
    /\ groq.pc = "returned" =>
           \/ "error" \in DOMAIN groq.result
           \/ /\ groq.log[Len(groq.log)].kind = "response"
              /\ groq.log[Len(groq.log)].status = 200
              /\ groq.result = groq.log[Len(groq.log)].json
    /\ groq.pc = "returned" /\ Len(groq.log) = 5 /\ Is503(groq.log[5]) =>
           groq.result = [error |-> MaxRetriesError]

\* C3: a call of query_groq makes at most 5 requests, request k+1 only
\* after request k returned 503; after five 503 responses it returns the
\* 'Max retries reached' error; every call ends, returning the success
\* payload or a mapping with 'error'.
C3_BoundedRetries ==
    /\ []C3_Bounded
    /\ (groq.pc \in {"post", "sleep"}) ~> (groq.pc = "returned")

\* five 503 responses in a row
C3_Witness ==
    /\ groq.pc = "returned"
    /\ Len(groq.log) = 5 /\ \A k \in 1..5 : Is503(groq.log[k])
    /\ groq.result = [error |-> MaxRetriesError]

\* C4: a response whose status is neither 200 nor 503 ends the call at once
\* with an error carrying the status code and, in details, the body; no
\* request and no delay follows it.
C4_OtherStatusEndsCall ==
    \A k \in 1..Len(groq.log) :
        groq.log[k].kind = "response" /\ groq.log[k].status \notin {200, 503} =>
            /\ k = Len(groq.log)
            /\ groq.pc = "returned"
            /\ groq.result = [error |-> StatusError(groq.log[k].status),
                              details |-> groq.log[k].text]
            /\ groq.sleeps = k - 1

\* a 500 on the second attempt
C4_Witness ==
    /\ groq.pc = "returned" /\ Len(groq.log) = 2
    /\ groq.log[2].kind = "response" /\ groq.log[2].status = 500
    /\ groq.result = [error |-> StatusError(500), details |-> Text("internal error")]
    /\ groq.sleeps = 1

\* C5: an exception raised while sending a request or reading its reply is
\* returned as an error result with the exception's message; it does not
\* leave query_groq and the request is not retried.
C5_ExceptionBecomesError ==
    /\ groq.pc \in {"idle", "post", "sleep", "returned"}
    /\ \A k \in 1..Len(groq.log) :
           Raised(groq.log[k]) =>
               /\ k = Len(groq.log)
               /\ groq.pc = "returned"
               /\ groq.result =
                      [error |-> ExceptionError(ExceptionMessage(groq.log[k]))]

\* requests.post raises on the third attempt
C5_Witness ==
    /\ groq.pc = "returned" /\ Len(groq.log) = 3
    /\ groq.log[3].kind = "exception"
    /\ groq.result = [error |-> ExceptionError("Connection refused")]

\* C6: a call that makes k attempts waits at most k-1 times: no delay is
\* spent after the last attempt.
C6_DelayOnlyBetweenAttempts ==
    groq.pc = "returned" => groq.sleeps <= Len(groq.log) - 1

(***************************************************************************)
(* Claims about the session                                                *)
(***************************************************************************)
\* C9: a stored pending event never carries error = incomplete_time_info
\* and always has a non-empty start.dateTime; a candidate with the
\* sentinel or without a start time is rejected before it is stored, on
\* the strict and on the recovered path, with one and the same message.
C9_PendingHasStartNoSentinel ==
    /\ pending # Absent =>
           /\ IsDict(pending)
           /\ Get(pending, "error", Null) # Text("incomplete_time_info")
           /\ HasDateTime(pending, "start")
    /\ pc = "idle" /\ last.run = "rejected" /\ last.why \in {"sentinel", "no start"} =>
           /\ pending = Absent
           /\ messages[Len(messages)] = Assistant(MsgSentinelStrict)

\* a recovered candidate without a start time was just rejected
C9_Witness ==
    /\ pc = "idle"
    /\ last = [run |-> "rejected", why |-> "no start", path |-> "recovered"]
    /\ messages = << UserMessage, Assistant(MsgNoStartRecovered) >>
    /\ pending = Absent

\* the backend result holds 'error', or the reply is no strict JSON and no
\* recovery stage finds anything in it
ErrorOrNoCandidate(response) ==
    \/ "error" \in DOMAIN response
    \/ /\ "choices" \in DOMAIN response
       /\ ~json_loads(response["choices"].items[1]["message"]["content"].toks).ok
       /\ ~BraceParse(response["choices"].items[1]["message"]["content"].toks).ok
       /\ ~BlockParse(response["choices"].items[1]["message"]["content"].toks).ok
       /\ ~Truthy(FieldExtraction(response["choices"].items[1]["message"]["content"].toks))

\* C10: when the backend result holds 'error', or strict parsing and all
\* recovery stages fail, the script run stores no pending event and makes
\* no calendar submission, and appends exactly one assistant message, the
\* error or the rejection, after the user's.
C10_NoEventFabricated ==
    [][ pc = "reply" /\ ErrorOrNoCandidate(groq.result) =>
            /\ pending = Absent /\ pending' = Absent
            /\ submissions' = submissions
            /\ messages[Len(messages)].role = "user"
            /\ Len(messages') = Len(messages) + 1
            /\ SubSeq(messages', 1, Len(messages)) = messages
            /\ messages'[Len(messages')] \in
                   { Assistant(MsgNoCandidate),
                     Assistant(MsgBackendError(Get(groq.result, "error", Null))) }
      ]_vars

\* a reply of prose only was just rejected
C10_Witness ==
    /\ pc = "idle"
    /\ last = [run |-> "rejected", why |-> "no candidate", path |-> "recovered"]
    /\ messages = << UserMessage, Assistant(MsgNoCandidate) >>
    /\ pending = Absent /\ submissions = 0

(***************************************************************************)
(* Claims about list_upcoming_events                                       *)
(***************************************************************************)
\* C20: every call of list_upcoming_events returns a result with
\* success = true and an events list, or one with success = false and an
\* error, whatever the API call does on each of its attempts.
C20_ListReturnsResult ==
    last.run = "listed" =>
        /\ IsDict(last.result)
        /\ "success" \in DOMAIN last.result
        /\ \/ /\ last.result["success"] = Bool(TRUE)
              /\ "events" \in DOMAIN last.result
              /\ IsList(last.result["events"])
           \/ /\ last.result["success"] = Bool(FALSE)
              /\ "error" \in DOMAIN last.result

(***************************************************************************)
(* Claims about a strict-JSON reply from the backend to the submission     *)
(***************************************************************************)
\* ev[time_field]['dateTime'] is a full ISO date-time with offset
CompleteTime(ev, time_field) ==
    /\ HasDateTimeString(ev, time_field)
    /\ ev[time_field]["dateTime"].k = "isoz"
    /\ ValidFields(ev[time_field]["dateTime"].y, ev[time_field]["dateTime"].mo,
                   ev[time_field]["dateTime"].d, ev[time_field]["dateTime"].h,
                   ev[time_field]["dateTime"].mi, ev[time_field]["dateTime"].s)

\* the reply text of a chat-completion body
ContentOf(response) ==
    response["choices"].items[1]["message"]["content"].toks

\* the response carries strict JSON: an object without the sentinel, with
\* complete start and end
StrictComplete(response) ==
    /\ IsDict(response) /\ "choices" \in DOMAIN response
    /\ json_loads(ContentOf(response)).ok
    /\ IsDict(json_loads(ContentOf(response)).val)
    /\ "error" \notin DOMAIN json_loads(ContentOf(response)).val
    /\ CompleteTime(json_loads(ContentOf(response)).val, "start")
    /\ CompleteTime(json_loads(ContentOf(response)).val, "end")

\* the parsing warnings a result of create_calendar_event carries
WarningsIn(result) ==
    IF "warnings" \in DOMAIN result /\ IsList(result["warnings"])
    THEN result["warnings"].items
    ELSE <<>>

\* C22: a reply that is strict JSON with complete start.dateTime and
\* end.dateTime is stored for confirmation as parsed, on the strict path,
\* and the validation made when it is confirmed gives no warning.
C22_StrictJsonStoredAndClean ==
    [][ /\ pc = "reply" /\ StrictComplete(groq.result) =>
              /\ pending' = json_loads(ContentOf(groq.result)).val
              /\ last'.run = "stored" /\ last'.path = "strict"
        /\ pc = "idle" /\ last.run = "stored" /\ last.path = "strict"
              /\ CompleteTime(pending, "start") /\ CompleteTime(pending, "end")
              /\ last'.run = "confirmed" =>
              WarningsIn(last'.result) = <<>>
      ]_vars

(***************************************************************************)
(* Claims about the pending event                                          *)
(***************************************************************************)
\* C30: while an event is pending no step starts a backend query, and the
\* pending event stays as it is until the confirm or the cancel button
\* removes it; so a typed or transcribed utterance changes neither.
C30_PendingBlocksUtterance ==
    [][ pending # Absent =>
            /\ pc' \in {"idle", "rerun"} /\ groq' = groq
            /\ messages' \in {messages} \cup
                   {Append(messages, Assistant(c)) :
                        c \in {MsgCreated, MsgCanceled}
                               \cup {MsgFailed(Text(e)) :
                                        e \in {"HttpError", "Unexpected error",
                                               "Unexpected error: Exception"}}}
            /\ \/ pending' = pending
               \/ pending' = Absent /\ last'.run \in {"confirmed", "canceled"}
      ]_vars

\* a transcribed utterance arrived while an event was pending
C30_Witness ==
    /\ pc = "idle" /\ pending # Absent /\ groq = GroqIdle
    /\ last = [run |-> "ignored", why |-> "transcribed", path |-> "none"]


\* C31: create_calendar_event is called only by the run of a confirm click
\* on a stored pending event, once per click; the runs of the confirm and
\* the cancel click both remove the pending event, whatever the result of
\* the submission, and the cancel click submits nothing.
C31_SubmitOnlyOnConfirm ==
    [][ /\ submissions' # submissions =>
              /\ pc = "idle" /\ pending # Absent
              /\ submissions' = submissions + 1
              /\ last'.run = "confirmed"
        /\ pc = "idle" /\ pending # Absent /\ messages' # messages =>
              /\ pending' = Absent
              /\ last'.run \in {"confirmed", "canceled"}
              /\ last'.run = "canceled" => submissions' = submissions
      ]_vars

\* a confirmed event whose submission failed and that is no longer pending
C31_Witness ==
    /\ last.run = "confirmed" /\ ~Truthy(last.why)
    /\ pending = Absent /\ submissions = 1

IsTranscript(v) == IsStr(v) /\ v.k = "transcript"

\* C33: the run that finds a transcript in the session takes it as the
\* prompt and clears it, and no transcript is the content of two user
\* messages given to the backend.
C33_TranscriptUsedOnce ==
    [][ /\ Truthy(transcribed_text) =>
              /\ transcribed_text' = Null
              /\ pending = Absent =>
                     messages' = Append(messages, UserMessageOf(transcribed_text))
        /\ \A i, j \in DOMAIN messages' :
              i < j /\ IsTranscript(messages'[i].content) =>
                  messages'[j] # messages'[i]
      ]_vars

\* the first transcript was given to the backend, the session holds none,
\* and a later utterance has been given to the backend as well
C33_Witness ==
    /\ Len(messages) >= 3
    /\ messages[1] = UserMessageOf(Transcript(1))
    /\ messages[3].role = "user"
    /\ transcribed_text = Null

(***************************************************************************)
(* SpecRecord: start_recording and stop_recording called by two sessions   *)
(* on the globals of speech_utils, and the record_audio threads            *)
(***************************************************************************)
\* the most record_audio threads followed
MaxThreads == 3

\* the Thread object made by the n-th start_recording
Thread(n) == [t |-> "thread", n |-> n]

\* the temporary file the n-th record_audio thread writes
File(n) == [t |-> "str", k |-> "path", n |-> n]

\* the threads that have not returned: in the loop or closing their file
Unfinished == {n \in DOMAIN threads : threads[n] \in {"running", "exited"}}

\* stop_recording returns result; was_recording, unfinished and started
\* record what held when it returned
StopReturn(result, was_recording) ==
    [pc |-> "returned", result |-> result, was_recording |-> was_recording,
     unfinished |-> Unfinished, started |-> Len(threads)]

InitRecord == RecOff /\ ValOff /\ ExtOff /\ AppOff

\* start_recording(): the flag is set, a thread is made, assigned to the
\* global and started; nothing is checked first
start_recording ==
    /\ Len(threads) < MaxThreads
    /\ is_recording' = TRUE
    /\ threads' = Append(threads, "running")
    /\ recording_thread' = Thread(Len(threads) + 1)
    /\ UNCHANGED <<recorded_file_path, stops>>
    /\ UNCHANGED valVars /\ UNCHANGED extVars /\ UNCHANGED appVars

\* record_audio of thread n reads is_recording as False and leaves its loop
LoopExit(n) ==
    /\ n \in DOMAIN threads /\ threads[n] = "running"
    /\ ~is_recording
    /\ threads' = [threads EXCEPT ![n] = "exited"]
    /\ UNCHANGED <<is_recording, recording_thread, recorded_file_path, stops>>
    /\ UNCHANGED valVars /\ UNCHANGED extVars /\ UNCHANGED appVars

\* record_audio of thread n closes its file, assigns the global and returns
RecordReturn(n) ==
    /\ n \in DOMAIN threads /\ threads[n] = "exited"
    /\ recorded_file_path' = File(n)
    /\ threads' = [threads EXCEPT ![n] = "finished"]
    /\ UNCHANGED <<is_recording, recording_thread, stops>>
    /\ UNCHANGED valVars /\ UNCHANGED extVars /\ UNCHANGED appVars

\* an exception in record_audio of thread n: the global is set to None
RecordFail(n) ==
    /\ n \in DOMAIN threads /\ threads[n] = "running"
    /\ recorded_file_path' = Null
    /\ threads' = [threads EXCEPT ![n] = "failed"]
    /\ UNCHANGED <<is_recording, recording_thread, stops>>
    /\ UNCHANGED valVars /\ UNCHANGED extVars /\ UNCHANGED appVars

\* stop_recording() of session s up to its join: None when not recording
\* or when there is no thread, else the flag is cleared and the thread
\* held by the global is the one joined
StopBegin(s) ==
    /\ stops[s].pc \in {"idle", "returned"}
    /\ IF ~is_recording
       THEN /\ stops' = [stops EXCEPT ![s] = StopReturn(Null, FALSE)]
            /\ UNCHANGED is_recording
       ELSE /\ is_recording' = FALSE
            /\ stops' = [stops EXCEPT ![s] =
                   IF recording_thread # Null
                   THEN [pc |-> "join", thread |-> recording_thread.n]
                   ELSE StopReturn(Null, TRUE)]
    /\ UNCHANGED <<recording_thread, recorded_file_path, threads>>
    /\ UNCHANGED valVars /\ UNCHANGED extVars /\ UNCHANGED appVars

\* the join of session s returns once the joined thread has: the path is
\* read from the global and the thread global is cleared
StopJoin(s) ==
    /\ stops[s].pc = "join"
    /\ threads[stops[s].thread] \in {"finished", "failed"}
    /\ stops' = [stops EXCEPT ![s] = StopReturn(recorded_file_path, TRUE)]
    /\ recording_thread' = Null
    /\ UNCHANGED <<is_recording, recorded_file_path, threads>>
    /\ UNCHANGED valVars /\ UNCHANGED extVars /\ UNCHANGED appVars

NextRecord ==
    \/ start_recording
    \/ \E n \in 1..MaxThreads : LoopExit(n)
    \/ \E n \in 1..MaxThreads : RecordReturn(n)
    \/ \E n \in 1..MaxThreads : RecordFail(n)
    \/ \E s \in Sessions : StopBegin(s)
    \/ \E s \in Sessions : StopJoin(s)

SpecRecord == InitRecord /\ [][NextRecord]_vars

\* C32: in every interleaving of start_recording and stop_recording calls,
\* when stop_recording returns a path every recording thread started has
\* finished writing and the path is the file of the most recently started
\* recording; called while not recording it returns None.
C32_StopReturnsLatestFile ==
    \A s \in Sessions :
        stops[s].pc = "returned" =>
            /\ stops[s].result # Null =>
                   /\ stops[s].unfinished = {}
                   /\ stops[s].result = File(stops[s].started)
            /\ ~stops[s].was_recording => stops[s].result = Null

====
